---- MODULE Spec2Model ----
(***************************************************************************)
(* Model of the Grad Cafe pipeline: the cleaning stage                     *)
(* (src/module_5/src/clean.py) and the dashboard's pull / update state     *)
(* (src/module_5/src/app.py).                                              *)
(*                                                                         *)
(* Text is a sequence of one-character strings, so that substring tests,   *)
(* regular-expression searches and whitespace normalisation are computed   *)
(* character by character, as the Python code computes them.  None is the  *)
(* empty-tagged value NoneVal; a Python str|None value is either NoneVal   *)
(* or a sequence.                                                          *)
(***************************************************************************)
EXTENDS Integers, Sequences, FiniteSets, TLC

\* Python's None.  Optional text values are records so that TLC can compare
\* a missing value with a present one.
NoneVal == [some |-> FALSE, txt |-> <<>>]
Some(t) == [some |-> TRUE, txt |-> t]
IsNone(v) == ~v.some

(***************************************************************************)
(* Characters                                                              *)
(***************************************************************************)
UpperSeq == <<"A","B","C","D","E","F","G","H","I","J","K","L","M",
              "N","O","P","Q","R","S","T","U","V","W","X","Y","Z">>
LowerSeq == <<"a","b","c","d","e","f","g","h","i","j","k","l","m",
              "n","o","p","q","r","s","t","u","v","w","x","y","z">>
DigitSet == {"0","1","2","3","4","5","6","7","8","9"}

UpperSet == {UpperSeq[i] : i \in 1..26}
AlphaSet == UpperSet \cup {LowerSeq[i] : i \in 1..26}
SpaceSet == {" ", "\n", "\t"}
IsUpper(c) == c \in UpperSet
IsAlpha(c) == c \in AlphaSet
IsDigit(c) == c \in DigitSet
\* \w of the re module
IsWord(c) == IsAlpha(c) \/ IsDigit(c) \/ c = "_"
\* str.split() / \s
IsSpace(c) == c \in SpaceSet

LowerMap == [c \in UpperSet |-> LowerSeq[CHOOSE i \in 1..26 : UpperSeq[i] = c]]
LowerCh(c) == IF IsUpper(c) THEN LowerMap[c] ELSE c
\* str.lower()
Lower(s) == [i \in 1..Len(s) |-> LowerCh(s[i])]

\* s[a..b] as a sequence (empty when a > b)
Slice(s, a, b) == IF a > b THEN <<>> ELSE SubSeq(s, a, b)

\* pat occurs in s starting at position i
OccursAt(pat, s, i) ==
    /\ i >= 1
    /\ i + Len(pat) - 1 <= Len(s)
    /\ \A k \in 1..Len(pat) : s[i + k - 1] = pat[k]

\* Python's  pat in s
Contains(s, pat) == \E i \in 1..(Len(s) + 1) : OccursAt(pat, s, i)

\* \b between positions i-1 and i (i in 1..Len(s)+1)
WordBoundary(s, i) ==
    LET before == i > 1 /\ IsWord(s[i - 1])
        after == i <= Len(s) /\ IsWord(s[i])
    IN before # after

\* the elements of s at the indices in keep, in order
SelectIdx(s, keep) ==
    [r \in 1..Cardinality(keep) |->
        s[CHOOSE k \in keep : Cardinality({j \in keep : j <= k}) = r]]

\* str.strip(): from the first to the last non-blank character
Strip(s) ==
    LET ink == {k \in 1..Len(s) : ~IsSpace(s[k])}
    IN IF ink = {} THEN <<>>
       ELSE Slice(s, CHOOSE k \in ink : \A j \in ink : k <= j,
                     CHOOSE k \in ink : \A j \in ink : j <= k)

\* " ".join(s.split()): every run of whitespace inside the text becomes one
\* blank, leading and trailing whitespace disappears
JoinSplit(s) ==
    LET n == Len(s)
        keep == {k \in 1..n :
                    \/ ~IsSpace(s[k])
                    \/ /\ k > 1
                       /\ ~IsSpace(s[k - 1])
                       /\ \E j \in (k + 1)..n : ~IsSpace(s[j])}
        t == SelectIdx(s, keep)
    IN [r \in 1..Len(t) |-> IF IsSpace(t[r]) THEN " " ELSE t[r]]

\* number of consecutive characters of class cls starting at position i
RunLen(s, i, cls) ==
    IF i > Len(s) THEN 0
    ELSE (CHOOSE j \in i..(Len(s) + 1) :
              /\ j = Len(s) + 1 \/ s[j] \notin cls
              /\ \A k \in i..(j - 1) : s[k] \in cls) - i

(***************************************************************************)
(* Field extractors: src/module_5/src/clean.py                             *)
(***************************************************************************)
\* a _norm that strips the ends and leaves inner runs of whitespace alone
_norm_strip_only(v) ==
    IF IsNone(v) THEN NoneVal
    ELSE LET t == Strip(v.txt)
         IN IF t = <<>> THEN NoneVal ELSE Some(t)

\* _norm: None stays None, whitespace runs collapse, the empty result is None
_norm(v) ==
    IF IsNone(v) THEN NoneVal
    ELSE LET t == JoinSplit(v.txt)
         IN IF t = <<>> THEN NoneVal ELSE Some(t)

\* smallest i in 1..Len(s) with EndAt[i] > 0, or 0 when there is none;
\* EndAt[i] is the position just past the match that starts at i (0: no match)
FirstMatch(s, EndAt) ==
    IF \E i \in 1..Len(s) : EndAt[i] > 0
    THEN CHOOSE i \in 1..Len(s) : EndAt[i] > 0 /\ \A j \in 1..(i - 1) : EndAt[j] = 0
    ELSE 0

\* re.search result as the matched text (group 0), None when no match
SearchGroup0(s, EndAt) ==
    LET i == FirstMatch(s, EndAt)
    IN IF i = 0 THEN NoneVal ELSE Some(Slice(s, i, EndAt[i] - 1))

W_accept == <<"a","c","c","e","p","t">>
W_reject == <<"r","e","j","e","c","t">>
W_wait == <<"w","a","i","t">>
W_Accepted == <<"A","c","c","e","p","t","e","d">>
W_Rejected == <<"R","e","j","e","c","t","e","d">>
W_Waitlisted == <<"W","a","i","t","l","i","s","t","e","d">>

\* r"\b\d{1,2}\s+[A-Za-z]{3,}\b" anchored at position i
DateEndAt(s) ==
    [i \in 1..Len(s) |->
        LET nd == RunLen(s, i, DigitSet)
            sp == RunLen(s, i + nd, SpaceSet)
            al == RunLen(s, i + nd + sp, AlphaSet)
            e == i + nd + sp + al
        IN IF /\ WordBoundary(s, i)
              /\ nd \in {1, 2}
              /\ sp >= 1
              /\ al >= 3
              /\ WordBoundary(s, e)
           THEN e ELSE 0]

\* _parse_decision with the reject test before the accept test
_parse_decision_reject_first(decision_text) ==
    IF IsNone(decision_text) \/ decision_text.txt = <<>>
    THEN [status |-> NoneVal, acceptance_date |-> NoneVal, rejection_date |-> NoneVal]
    ELSE LET text == decision_text.txt
             dlow == Lower(text)
             status == IF Contains(dlow, W_reject) THEN W_Rejected
                       ELSE IF Contains(dlow, W_accept) THEN W_Accepted
                       ELSE IF Contains(dlow, W_wait) THEN W_Waitlisted
                       ELSE text
             md == SearchGroup0(text, DateEndAt(text))
         IN [status |-> Some(status),
             acceptance_date |-> IF md.some /\ status = W_Accepted THEN md ELSE NoneVal,
             rejection_date |-> IF md.some /\ status # W_Accepted /\ status = W_Rejected
                                THEN md ELSE NoneVal]

\* _parse_decision with the rejection branch as a plain else: the token is
\* kept whatever the status
_parse_decision_mut(decision_text) ==
    IF IsNone(decision_text) \/ decision_text.txt = <<>>
    THEN [status |-> NoneVal, acceptance_date |-> NoneVal, rejection_date |-> NoneVal]
    ELSE LET text == decision_text.txt
             dlow == Lower(text)
             status == IF Contains(dlow, W_accept) THEN W_Accepted
                       ELSE IF Contains(dlow, W_reject) THEN W_Rejected
                       ELSE IF Contains(dlow, W_wait) THEN W_Waitlisted
                       ELSE text
             md == SearchGroup0(text, DateEndAt(text))
         IN [status |-> Some(status),
             acceptance_date |-> IF md.some /\ status = W_Accepted THEN md ELSE NoneVal,
             rejection_date |-> IF md.some /\ status # W_Accepted THEN md ELSE NoneVal]

\* _parse_decision: (status, acceptance_date, rejection_date)
_parse_decision(decision_text) ==
    IF IsNone(decision_text) \/ decision_text.txt = <<>>
    THEN [status |-> NoneVal, acceptance_date |-> NoneVal, rejection_date |-> NoneVal]
    ELSE LET text == decision_text.txt
             dlow == Lower(text)
             status == IF Contains(dlow, W_accept) THEN W_Accepted
                       ELSE IF Contains(dlow, W_reject) THEN W_Rejected
                       ELSE IF Contains(dlow, W_wait) THEN W_Waitlisted
                       ELSE text
             md == SearchGroup0(text, DateEndAt(text))
         IN [status |-> Some(status),
             acceptance_date |-> IF md.some /\ status = W_Accepted THEN md ELSE NoneVal,
             rejection_date |-> IF md.some /\ status # W_Accepted /\ status = W_Rejected
                                THEN md ELSE NoneVal]

Seasons == {<<"f","a","l","l">>, <<"s","p","r","i","n","g">>, <<"s","u","m","m","e","r">>, <<"w","i","n","t","e","r">>}

\* r"\b(Fall|Spring|Summer|Winter)\s+20\d{2}\b", re.I, anchored at position i
TermEndAt(s) ==
    LET low == Lower(s) IN
    [i \in 1..Len(s) |->
        IF WordBoundary(s, i) /\ \E w \in Seasons : OccursAt(w, low, i)
        THEN LET w == CHOOSE w \in Seasons : OccursAt(w, low, i)
                 j == i + Len(w)
                 sp == RunLen(s, j, SpaceSet)
                 y == j + sp
             IN IF /\ sp >= 1
                   /\ OccursAt(<<"2","0">>, s, y)
                   /\ RunLen(s, y + 2, DigitSet) >= 2
                   /\ WordBoundary(s, y + 4)
                THEN y + 4 ELSE 0
        ELSE 0]

\* _extract_start_term
_extract_start_term(all_text) == SearchGroup0(all_text, TermEndAt(all_text))

W_international == <<"i","n","t","e","r","n","a","t","i","o","n","a","l">>
W_american == <<"a","m","e","r","i","c","a","n">>
W_International == <<"I","n","t","e","r","n","a","t","i","o","n","a","l">>
W_American == <<"A","m","e","r","i","c","a","n">>

\* _extract_us_or_international
_extract_us_or_international(all_text) ==
    LET low == Lower(all_text)
    IN IF Contains(low, W_international) THEN Some(W_International)
       ELSE IF Contains(low, W_american) THEN Some(W_American)
       ELSE NoneVal

\* r"\bGPA\s*([0-4]\.\d+)\b", re.I: position just past the match at i, and
\* the position where group 1 starts
GpaGroupStart(s, i) == i + 3 + RunLen(s, i + 3, SpaceSet)
GpaEndAt(s) ==
    LET low == Lower(s) IN
    [i \in 1..Len(s) |->
        LET g == GpaGroupStart(s, i)
            nd == RunLen(s, g + 2, DigitSet)
            e == g + 2 + nd
        IN IF /\ WordBoundary(s, i)
              /\ OccursAt(<<"g","p","a">>, low, i)
              /\ g + 1 <= Len(s)
              /\ s[g] \in {"0","1","2","3","4"}
              /\ s[g + 1] = "."
              /\ nd >= 1
              /\ WordBoundary(s, e)
           THEN e ELSE 0]

\* _extract_gpa: group 1 of the first match
_extract_gpa(all_text) ==
    LET EndAt == GpaEndAt(all_text)
        i == FirstMatch(all_text, EndAt)
    IN IF i = 0 THEN NoneVal
       ELSE Some(Slice(all_text, GpaGroupStart(all_text, i), EndAt[i] - 1))

MidDot == "·"
W_phd == <<"p","h","d">>
W_master == <<"m","a","s","t","e","r">>
W_psy == <<"p","s","y">>
W_PhD == <<"P","h","D">>
W_Masters == <<"M","a","s","t","e","r","s">>
W_PsyD == <<"P","s","y","D">>

\* the alternatives of r"\b(ph\.?d|phd|psy\.?d|psyd|masters?)\b", lower case
DegreeWords == <<<<"p","h",".","d">>, <<"p","h","d">>, <<"p","s","y",".","d">>, <<"p","s","y","d">>, <<"m","a","s","t","e","r","s">>, <<"m","a","s","t","e","r">>>>

\* position just past the degree word matched at i (0: none).  The optional
\* parts are greedy and the closing \b must hold, so the first alternative
\* in order that matches with both boundaries decides.
DegreeWordEnd(s, low, i) ==
    LET ok(k) == /\ OccursAt(DegreeWords[k], low, i)
                 /\ WordBoundary(s, i)
                 /\ WordBoundary(s, i + Len(DegreeWords[k]))
    IN IF \E k \in 1..Len(DegreeWords) : ok(k)
       THEN LET k == CHOOSE k \in 1..Len(DegreeWords) :
                        ok(k) /\ \A j \in 1..(k - 1) : ~ok(j)
            IN i + Len(DegreeWords[k])
       ELSE 0

\* re.sub(pattern, "", s, flags=re.I) scanning from position i; low is s
\* in lower case
RECURSIVE SubDegreeFrom(_, _, _)
SubDegreeFrom(s, low, i) ==
    IF i > Len(s) THEN <<>>
    ELSE LET e == DegreeWordEnd(s, low, i)
         IN IF e > 0 THEN SubDegreeFrom(s, low, e)
            ELSE <<s[i]>> \o SubDegreeFrom(s, low, i + 1)
SubDegree(s) == SubDegreeFrom(s, Lower(s), 1)

\* index of the first "·" in s, 0 when absent
DotIndex(s) ==
    IF \E i \in 1..Len(s) : s[i] = MidDot
    THEN CHOOSE i \in 1..Len(s) : s[i] = MidDot /\ \A j \in 1..(i - 1) : s[j] # MidDot
    ELSE 0

\* the degree chosen with the PsyD test before the Masters test
DegreeFromPart_mut(degree_part) ==
    IF Contains(degree_part, W_phd) THEN Some(W_PhD)
    ELSE IF Contains(degree_part, W_psy) THEN Some(W_PsyD)
    ELSE IF Contains(degree_part, W_master) THEN Some(W_Masters)
    ELSE NoneVal

\* the degree chosen from the text right of the separator
DegreeFromPart(degree_part) ==
    IF Contains(degree_part, W_phd) THEN Some(W_PhD)
    ELSE IF Contains(degree_part, W_master) THEN Some(W_Masters)
    ELSE IF Contains(degree_part, W_psy) THEN Some(W_PsyD)
    ELSE NoneVal

\* _parse_program_and_degree: (program_name, degree); program_text is a str
_parse_program_and_degree(program_text) ==
    IF program_text = <<>>
    THEN [program_name |-> NoneVal, degree |-> NoneVal]
    ELSE LET d == DotIndex(program_text)
             left == Strip(Slice(program_text, 1, d - 1))
             name0 == IF d = 0 THEN Some(program_text)
                      ELSE IF left = <<>> THEN NoneVal ELSE Some(left)
             degree == IF d = 0 THEN NoneVal
                       ELSE DegreeFromPart(Lower(Slice(program_text, d + 1, Len(program_text))))
             name1 == IF IsNone(name0) THEN NoneVal
                      ELSE LET t == JoinSplit(SubDegree(name0.txt))
                           IN IF t = <<>> THEN NoneVal ELSE Some(t)
         IN [program_name |-> name1, degree |-> degree]

(***************************************************************************)
(* Parsed markup.  A listing fragment (combined_html) is the sequence of   *)
(* its <tr> rows, a row the sequence of its <td> cells, a cell its text    *)
(* and whether the text sits in a <p>.  A detail page is the sequence of   *)
(* its <dt>/<dd> siblings and the sequence of its <span> texts, both in    *)
(* document order.                                                         *)
(***************************************************************************)
Cell(t) == [text |-> t, p |-> FALSE]
PCell(t) == [text |-> t, p |-> TRUE]

\* combined_html values: None, "" and markup
HtmlNone == [kind |-> "none", rows |-> <<>>]
HtmlEmpty == [kind |-> "empty", rows |-> <<>>]
Html(rows) == [kind |-> "markup", rows |-> rows]

\* Python truthiness of combined_html and of entry_url
HtmlTruthy(h) == h.kind = "markup"
Truthy(v) == v.some /\ v.txt # <<>>

\* tag.get_text(" ", strip=True) of a cell holding one text node
CellText(c) == Strip(c.text)

\* the cells of the whole fragment in document order
RECURSIVE AllCells(_)
AllCells(rows) == IF rows = <<>> THEN <<>> ELSE Head(rows) \o AllCells(Tail(rows))

\* " ".join of the non-empty stripped text nodes
RECURSIVE JoinTexts(_)
JoinTexts(cells) ==
    IF cells = <<>> THEN <<>>
    ELSE LET t == CellText(Head(cells))
             rest == JoinTexts(Tail(cells))
         IN IF t = <<>> THEN rest
            ELSE IF rest = <<>> THEN t
            ELSE t \o <<" ">> \o rest

\* soup.get_text(" ", strip=True)
SoupText(soup) == JoinTexts(AllCells(soup.rows))

\* _extract_comments / soup.find("p"): the first <p> in document order
_extract_comments(soup) ==
    LET cells == AllCells(soup.rows)
    IN IF \E k \in 1..Len(cells) : cells[k].p
       THEN LET k == CHOOSE k \in 1..Len(cells) :
                        cells[k].p /\ \A j \in 1..(k - 1) : ~cells[j].p
            IN _norm(Some(CellText(cells[k])))
       ELSE NoneVal

\* v or ""
OrEmpty(v) == IF IsNone(v) THEN <<>> ELSE v.txt

\* _extract_row_cells: the <td> cells of the first <tr>, <<>> when the
\* fragment has no row; MinCells is the literal 4 of the length test
MinCells == 4
FirstRowCells(soup) == IF soup.rows = <<>> THEN <<>> ELSE soup.rows[1]
\* the length test written with <= instead of <
RowAccepted_mut(soup) == soup.rows # <<>> /\ ~(Len(FirstRowCells(soup)) <= MinCells)
RowAccepted(soup) == soup.rows # <<>> /\ ~(Len(FirstRowCells(soup)) < MinCells)

NoBase == [ok |-> FALSE, university |-> NoneVal, program_name |-> NoneVal,
           degree |-> NoneVal, date_added |-> NoneVal,
           applicant_status |-> NoneVal, acceptance_date |-> NoneVal,
           rejection_date |-> NoneVal, comments |-> NoneVal,
           start_term |-> NoneVal, international_american |-> NoneVal,
           gpa |-> NoneVal]

\* _extract_summary_fields: ok = FALSE stands for the None result
_extract_summary_fields(soup) ==
    IF ~RowAccepted(soup) THEN NoBase
    ELSE LET cells == FirstRowCells(soup)
             pd == _parse_program_and_degree(OrEmpty(_norm(Some(CellText(cells[2])))))
             dec == _parse_decision(_norm(Some(CellText(cells[4]))))
             full_text == OrEmpty(_norm(Some(SoupText(soup))))
         IN [ok |-> TRUE,
             university |-> _norm(Some(CellText(cells[1]))),
             program_name |-> pd.program_name,
             degree |-> pd.degree,
             date_added |-> _norm(Some(CellText(cells[3]))),
             applicant_status |-> dec.status,
             acceptance_date |-> dec.acceptance_date,
             rejection_date |-> dec.rejection_date,
             comments |-> _extract_comments(soup),
             start_term |-> _extract_start_term(full_text),
             international_american |-> _extract_us_or_international(full_text),
             gpa |-> _extract_gpa(full_text)]

(***************************************************************************)
(* Detail page                                                             *)
(***************************************************************************)
Dt(t) == [tag |-> "dt", text |-> t]
Dd(t) == [tag |-> "dd", text |-> t]
DetailDoc(dl, spans) == [dl |-> dl, spans |-> spans]

\* first index k of seq with P[k], 0 when none (P is a function on 1..Len)
FirstIdx(n, P) ==
    IF \E k \in 1..n : P[k]
    THEN CHOOSE k \in 1..n : P[k] /\ \A j \in 1..(k - 1) : ~P[j]
    ELSE 0

\* _get_value: the first <dt> whose string matches the label (re.I search),
\* then its next <dd> sibling
_get_value(soup, label) ==
    LET dl == soup.dl
        dt == FirstIdx(Len(dl), [k \in 1..Len(dl) |->
                  dl[k].tag = "dt" /\ Contains(Lower(dl[k].text), Lower(label))])
        dd == IF dt = 0 THEN 0
              ELSE FirstIdx(Len(dl), [k \in 1..Len(dl) |-> k > dt /\ dl[k].tag = "dd"])
    IN IF dt = 0 \/ dd = 0 THEN NoneVal
       ELSE _norm(Some(Strip(dl[dd].text)))

\* an _extract_span_value that reads the value off the next span that is
\* not a label itself
_extract_span_value_mut(detail_soup, label) ==
    LET spans == detail_soup.spans
        sp == FirstIdx(Len(spans), [k \in 1..Len(spans) |->
                  Contains(Lower(spans[k]), Lower(label))])
        nxt == IF sp = 0 THEN 0
               ELSE FirstIdx(Len(spans), [k \in 1..Len(spans) |->
                        k > sp /\ ~Contains(Lower(spans[k]), <<"g","r","e">>)])
    IN IF sp = 0 THEN NoneVal
       ELSE IF nxt = 0 THEN _norm(NoneVal)
       ELSE _norm(Some(Strip(spans[nxt])))

\* _extract_span_value: the first <span> whose string matches the label,
\* then the next <span> in document order
_extract_span_value(detail_soup, label) ==
    LET spans == detail_soup.spans
        sp == FirstIdx(Len(spans), [k \in 1..Len(spans) |->
                  Contains(Lower(spans[k]), Lower(label))])
    IN IF sp = 0 THEN NoneVal
       ELSE IF sp + 1 > Len(spans) THEN _norm(NoneVal)
       ELSE _norm(Some(Strip(spans[sp + 1])))

L_DegreeType == <<"D","e","g","r","e","e"," ","T","y","p","e">>
L_GreGeneral == <<"G","R","E"," ","G","e","n","e","r","a","l">>
L_GreVerbal == <<"G","R","E"," ","V","e","r","b","a","l">>
L_AnalyticalWriting == <<"A","n","a","l","y","t","i","c","a","l"," ","W","r","i","t","i","n","g">>

\* lines 224-240 of _fetch_detail_fields: the fields read off a fetched page
ParseDetail(detail_soup) ==
    LET deg_type == _get_value(detail_soup, L_DegreeType)
        dlow == Lower(OrEmpty(deg_type))
        degree == IF ~Truthy(deg_type) THEN NoneVal
                  ELSE IF Contains(dlow, W_phd) THEN Some(W_PhD)
                  ELSE IF Contains(dlow, W_master) THEN Some(W_Masters)
                  ELSE NoneVal
    IN <<degree,
         _extract_span_value(detail_soup, L_GreGeneral),
         _extract_span_value(detail_soup, L_GreVerbal),
         _extract_span_value(detail_soup, L_AnalyticalWriting)>>

\* what urllib3.request does: raise exc, or return a response
NetRaise(exc) == [kind |-> "raise", exc |-> exc, status |-> 0, doc |-> DetailDoc(<<>>, <<>>)]
NetResp(status, doc) == [kind |-> "resp", exc |-> "", status |-> status, doc |-> doc]

DocFull ==
    DetailDoc(<<Dt(<<"D","e","g","r","e","e"," ","T","y","p","e">>), Dd(<<" ","M","a","s","t","e","r","s"," ">>)>>,
              <<<<"G","R","E"," ","G","e","n","e","r","a","l">>, <<"1","6","5">>, <<"G","R","E"," ","V","e","r","b","a","l">>, <<"1","6","0">>,
                <<"A","n","a","l","y","t","i","c","a","l"," ","W","r","i","t","i","n","g">>, <<" ","4",".","5"," ">>>>)
DocAdjacent ==
    DetailDoc(<<Dt(<<"I","n","s","t","i","t","u","t","i","o","n">>), Dd(<<"M","I","T">>), Dt(<<"d","e","g","r","e","e"," ","t","y","p","e">>), Dd(<<"P","h","D">>)>>,
              <<<<"G","R","E"," ","G","e","n","e","r","a","l">>, <<"G","R","E"," ","V","e","r","b","a","l">>, <<"1","6","0">>, <<"A","n","a","l","y","t","i","c","a","l"," ","W","r","i","t","i","n","g">>>>)
DocBare == DetailDoc(<<Dt(<<"D","e","g","r","e","e"," ","T","y","p","e">>)>>, <<>>)
DetailDocs == {DocFull, DocAdjacent, DocBare}

\* ParseDetail of every sample page, evaluated once
DetailOf == [d \in DetailDocs |-> ParseDetail(d)]

\* an except clause that names OSError only
CaughtByFetch_mut == {"OSError"}

\* the classes named by the except clause of _fetch_detail_fields
CaughtByFetch == {"HTTPError", "MaxRetryError", "OSError"}

StatusOK == 200
AllNone == <<NoneVal, NoneVal, NoneVal, NoneVal>>

\* _fetch_detail_fields without the status test
_fetch_detail_fields_mut(entry_url, net) ==
    IF ~Truthy(entry_url)
    THEN [det |-> AllNone, requested |-> FALSE, escaped |-> ""]
    ELSE IF net.kind = "raise"
    THEN IF net.exc \in CaughtByFetch
         THEN [det |-> AllNone, requested |-> TRUE, escaped |-> ""]
         ELSE [det |-> AllNone, requested |-> TRUE, escaped |-> net.exc]
    ELSE [det |-> DetailOf[net.doc], requested |-> TRUE, escaped |-> ""]

\* _fetch_detail_fields(entry_url) when the network answers net:
\*   det       the returned 4-tuple (degree, gre_total, gre_v, gre_aw)
\*   requested whether urllib3.request was called
\*   escaped   the exception leaving the function, "" when it returns
_fetch_detail_fields(entry_url, net) ==
    IF ~Truthy(entry_url)
    THEN [det |-> AllNone, requested |-> FALSE, escaped |-> ""]
    ELSE IF net.kind = "raise"
    THEN IF net.exc \in CaughtByFetch
         THEN [det |-> AllNone, requested |-> TRUE, escaped |-> ""]
         ELSE [det |-> AllNone, requested |-> TRUE, escaped |-> net.exc]
    ELSE IF net.status # StatusOK
    THEN [det |-> AllNone, requested |-> TRUE, escaped |-> ""]
    ELSE [det |-> DetailOf[net.doc], requested |-> TRUE, escaped |-> ""]

(***************************************************************************)
(* Inputs: listing fragments, entry URLs and network answers               *)
(***************************************************************************)
Row4(u, prog, date, dec) == <<Cell(u), Cell(prog), Cell(date), Cell(dec)>>
T_Univ == <<" ","M","I","T"," ">>
T_Date == <<"J","a","n"," ","1",","," "," ","2","0","2","6">>
T_Math == <<"M","a","t","h">>
T_TagRow == <<"F","a","l","l"," ","2","0","2","6"," "," ","I","n","t","e","r","n","a","t","i","o","n","a","l"," ","G","P","A"," ","3",".","9","0">>
T_Comment == <<" ","G","r","e","a","t"," "," "," ","p","r","o","f","i","l","e"," ">>

\* decision badge texts: the three keywords and a free text, each with a
\* day+month token, two keywords at once, a keyword split by a blank, and
\* the empty badge
DecisionTexts ==
    { <<"A","c","c","e","p","t","e","d"," ","1","2"," ","F","e","b">>, <<"R","e","j","e","c","t","e","d"," ","3"," ","M","a","r">>, <<"W","a","i","t","l","i","s","t","e","d"," ","5"," ","A","p","r">>,
      <<"I","n","t","e","r","v","i","e","w"," ","7"," ","M","a","y">>, <<"R","e","j","e","c","t","e","d"," ","o","r"," ","A","c","c","e","p","t","e","d"," ","1"," ","J","a","n">>,
      <<"W","a","i","t"," ","l","i","s","t","e","d"," ","o","n"," ","2","1"," ","J","u","n","e">>, <<>> }

\* entry_url as scrape_data builds it: None, or the urljoin of the base URL
\* and the row's link (src/module_4/src/scrape.py:93)
Url1 == Some(<<"h","t","t","p",":","/","/","g","/","r","/","1">>)
Url2 == Some(<<"h","t","t","p",":","/","/","g","/","r","/","2">>)

Entry(h, u) == [combined_html |-> h, entry_url |-> u]

DecisionEntries ==
    { Entry(Html(<<Row4(T_Univ, T_Math, T_Date, d)>>), NoneVal) : d \in DecisionTexts }
\* listing degrees with and without a detail page to consult
ProgramEntries ==
    { Entry(Html(<<Row4(T_Univ, <<"C","S"," ","·"," ","P","h","D">>, T_Date, <<"A","c","c","e","p","t","e","d"," ","1","2"," ","F","e","b">>)>>), Url1),
      Entry(Html(<<Row4(T_Univ, T_Math, T_Date, <<"a","c","c","e","p","t","e","d">>)>>), Url1),
      Entry(Html(<<Row4(T_Univ, <<"P","s","y","c","h"," ","·"," ","P","s","y","D">>, T_Date, <<"R","e","j","e","c","t","e","d">>)>>), NoneVal),
      Entry(Html(<<Row4(T_Univ, <<"C","S"," ","M","a","s","t","e","r","s"," ","·"," ","M","a","s","t","e","r","s">>, T_Date, <<"A","c","c","e","p","t","e","d">>)>>), NoneVal) }
TaggedEntries ==
    { Entry(Html(<<Row4(T_Univ, <<"C","S"," ","·"," ","M","a","s","t","e","r","s">>, T_Date, <<"A","c","c","e","p","t","e","d"," ","1","2"," ","F","e","b">>),
                   <<Cell(T_TagRow)>>, <<PCell(T_Comment)>>>>), NoneVal),
      Entry(Html(<<Row4(<<"J","H","U">>, T_Math, T_Date, <<"R","e","j","e","c","t","e","d">>) \o <<Cell(<<"x">>)>>,
                   <<Cell(<<"s","p","r","i","n","g"," ","2","0","2","7"," ","a","m","e","r","i","c","a","n"," ","g","p","a"," ","4",".","5">>)>>>>), Url2) }
\* fragments the row test rejects, each with a URL that must not be fetched
MalformedEntries ==
    { Entry(HtmlNone, Url1),
      Entry(HtmlEmpty, Url1),
      Entry(Html(<<>>), Url2),
      Entry(Html(<<<<Cell(<<"A">>), Cell(<<"B">>), Cell(<<"C">>)>>>>), Url1),
      Entry(Html(<<<<Cell(<<"A">>)>>, Row4(T_Univ, T_Math, T_Date, <<"A","c","c","e","p","t","e","d">>)>>), Url2) }

\* a row whose four cells and comment hold nothing but whitespace
BlankEntries ==
    { Entry(Html(<<Row4(<<" "," ">>, <<" ">>, <<>>, <<" "," "," ">>), <<PCell(<<" ">>)>>>>), Url1) }

SampleEntries ==
    DecisionEntries \cup ProgramEntries \cup TaggedEntries \cup MalformedEntries \cup BlankEntries

\* the longest batch handed to clean_data
MaxBatch == 2
Batches == UNION {[1..n -> SampleEntries] : n \in 0..MaxBatch}

\* exceptions urllib3.request raises: its own hierarchy and socket errors
NetExceptions == {"HTTPError", "MaxRetryError", "OSError"}
StatusNotFound == 404
NetOutcomes ==
    {NetRaise(e) : e \in NetExceptions}
    \cup {NetResp(StatusNotFound, DocFull)}
    \cup {NetResp(StatusOK, d) : d \in DetailDocs}

(***************************************************************************)
(* clean_data as a state machine: one step per loop iteration              *)
(***************************************************************************)
VARIABLES
    raw_entries,  \* the argument of clean_data
    pos,          \* index of the item the for loop handles next
    cleaned,      \* the list built so far
    fetch_log,    \* the urllib3.request calls made: entry index and answer
    cpc,          \* "loop", "done" (returned) or "raised" (exception left)
    fd_url,       \* argument of a direct _fetch_detail_fields call
    fd_net,       \* what the network answers to that call
    fd_out,       \* its result
    fd_pc,        \* "call" before, "returned" after
    PULL_STATE,   \* app.PULL_STATE: running flag and message
    RESULTS_CACHE, \* app.RESULTS_CACHE
    HAS_RESULTS,  \* app.HAS_RESULTS
    db,           \* number of load_data calls that completed
    reqs,         \* the HTTP requests received, each with its handler's position
    pulls,        \* the _background_pull threads started
    environ,      \* os.environ: the six database variables
    ld_db_url,    \* the db_url argument of load_data / get_conn
    jsonl,        \* the lines of the file load_data reads
    lpos,         \* index of the line load_data handles next
    applicants,   \* the rows of the applicants table, in p_id order
    before_load,  \* the table when the running load_data call began
    loaded,       \* the files whose load_data call committed
    connect_log,  \* the URLs psycopg.connect was called with, in order
    ld_exc,       \* the exception that left the load_data / get_conn call
    lpc,          \* position of the load_data / get_conn call
    s_robots,     \* robots.txt for the survey path: "allow", "disallow", or "error" (unreadable)
    s_site,       \* the listing pages the site serves, page 1 first
    s_target,     \* the target argument of scrape_data
    s_log,        \* the requests scrape_data made, in order
    raw_rows,     \* the list scrape_data builds
    page,         \* the page scrape_data requests next
    spc,          \* position of the scrape_data call
    p_fn,         \* the parser called directly
    p_arg,        \* its argument
    p_out,        \* its result
    p_pc          \* "call" before, "returned" after

cleanVars == <<raw_entries, pos, cleaned, fetch_log, cpc>>
fetchVars == <<fd_url, fd_net, fd_out, fd_pc>>
appVars == <<PULL_STATE, RESULTS_CACHE, HAS_RESULTS, db, reqs, pulls>>
loadVars == <<environ, ld_db_url, jsonl, lpos, applicants, before_load, loaded, connect_log, ld_exc, lpc>>
scrapeVars == <<s_robots, s_site, s_target, s_log, raw_rows, page, spc>>
parseVars == <<p_fn, p_arg, p_out, p_pc>>

\* the module-level state of app.py after import (lines 41-45)
AppInit ==
    /\ PULL_STATE = [running |-> FALSE, message |-> <<"">>]
    /\ RESULTS_CACHE = <<>>
    /\ HAS_RESULTS = FALSE
    /\ db = 0
    /\ reqs = <<>>
    /\ pulls = <<>>

\* an assembler that keeps the URL only when the detail page gave something
Assemble_drops_url(base, det, entry_url) ==
    [program_name |-> base.program_name,
     university |-> base.university,
     comments |-> base.comments,
     date_added |-> base.date_added,
     entry_url |-> IF det = AllNone THEN NoneVal ELSE entry_url,
     applicant_status |-> base.applicant_status,
     acceptance_date |-> base.acceptance_date,
     rejection_date |-> base.rejection_date,
     start_term |-> base.start_term,
     international_american |-> base.international_american,
     gre_score |-> det[2],
     gre_v_score |-> det[3],
     gre_aw |-> det[4],
     degree |-> IF IsNone(base.degree) THEN det[1] ELSE base.degree,
     gpa |-> base.gpa]

\* an assembler in which the detail-page degree wins
Assemble_mut(base, det, entry_url) ==
    [program_name |-> base.program_name,
     university |-> base.university,
     comments |-> base.comments,
     date_added |-> base.date_added,
     entry_url |-> entry_url,
     applicant_status |-> base.applicant_status,
     acceptance_date |-> base.acceptance_date,
     rejection_date |-> base.rejection_date,
     start_term |-> base.start_term,
     international_american |-> base.international_american,
     gre_score |-> det[2],
     gre_v_score |-> det[3],
     gre_aw |-> det[4],
     degree |-> IF IsNone(det[1]) THEN base.degree ELSE det[1],
     gpa |-> base.gpa]

\* the dict appended by clean_data (lines 360-378)
Assemble(base, det, entry_url) ==
    [program_name |-> base.program_name,
     university |-> base.university,
     comments |-> base.comments,
     date_added |-> base.date_added,
     entry_url |-> entry_url,
     applicant_status |-> base.applicant_status,
     acceptance_date |-> base.acceptance_date,
     rejection_date |-> base.rejection_date,
     start_term |-> base.start_term,
     international_american |-> base.international_american,
     gre_score |-> det[2],
     gre_v_score |-> det[3],
     gre_aw |-> det[4],
     degree |-> IF IsNone(base.degree) THEN det[1] ELSE base.degree,
     gpa |-> base.gpa]

\* _extract_summary_fields(BeautifulSoup(combined_html)) of every sample
\* fragment, evaluated once
SummaryOf == [h \in {e.combined_html : e \in SampleEntries} |-> _extract_summary_fields(h)]

\* the two `continue` tests of the loop body
Filtered(item) ==
    \/ ~HtmlTruthy(item.combined_html)
    \/ ~SummaryOf[item.combined_html].ok

\* insertion at the front instead of list.append
AppendRecord_mut(list, rec) == <<rec>> \o list

\* list.append
AppendRecord(list, rec) == Append(list, rec)

\* a loop body that fetches the detail page before the `continue` tests
CleanSkip_mut ==
    /\ cpc = "loop"
    /\ pos <= Len(raw_entries)
    /\ Filtered(raw_entries[pos])
    /\ fetch_log' = IF Truthy(raw_entries[pos].entry_url)
                     THEN Append(fetch_log, [idx |-> pos, net |-> NetResp(StatusNotFound, DocFull)])
                     ELSE fetch_log
    /\ pos' = pos + 1
    /\ UNCHANGED <<raw_entries, cleaned, cpc, fetchVars, appVars, loadVars, scrapeVars, parseVars>>

\* an iteration that hits `continue`
CleanSkip ==
    /\ cpc = "loop"
    /\ pos <= Len(raw_entries)
    /\ Filtered(raw_entries[pos])
    /\ pos' = pos + 1
    /\ UNCHANGED <<raw_entries, cleaned, fetch_log, cpc, fetchVars, appVars, loadVars, scrapeVars, parseVars>>

\* an iteration for an entry without URL in a loop that does not reset det:
\* the result of the last fetch is still there
CleanNoUrl_stale ==
    /\ cpc = "loop"
    /\ pos <= Len(raw_entries)
    /\ LET item == raw_entries[pos]
           last == fetch_log[Len(fetch_log)]
           det == IF fetch_log = <<>> THEN AllNone
                  ELSE _fetch_detail_fields(raw_entries[last.idx].entry_url, last.net).det
       IN /\ ~Filtered(item)
          /\ ~Truthy(item.entry_url)
          /\ cleaned' = AppendRecord(cleaned,
                 Assemble(SummaryOf[item.combined_html], det, item.entry_url))
    /\ pos' = pos + 1
    /\ UNCHANGED <<raw_entries, fetch_log, cpc, fetchVars, appVars, loadVars, scrapeVars, parseVars>>

\* an iteration for an entry without URL: det stays all None
CleanNoUrl ==
    /\ cpc = "loop"
    /\ pos <= Len(raw_entries)
    /\ LET item == raw_entries[pos]
       IN /\ ~Filtered(item)
          /\ ~Truthy(item.entry_url)
          /\ cleaned' = AppendRecord(cleaned,
                 Assemble(SummaryOf[item.combined_html], AllNone, item.entry_url))
    /\ pos' = pos + 1
    /\ UNCHANGED <<raw_entries, fetch_log, cpc, fetchVars, appVars, loadVars, scrapeVars, parseVars>>

\* an iteration that calls _fetch_detail_fields; the network answers net
CleanFetch ==
    /\ cpc = "loop"
    /\ pos <= Len(raw_entries)
    /\ LET item == raw_entries[pos]
       IN /\ ~Filtered(item)
          /\ Truthy(item.entry_url)
          /\ \E net \in NetOutcomes :
                LET r == _fetch_detail_fields(item.entry_url, net)
                IN /\ fetch_log' = IF r.requested
                                   THEN Append(fetch_log, [idx |-> pos, net |-> net])
                                   ELSE fetch_log
                   /\ IF r.escaped # ""
                      THEN /\ cpc' = "raised"
                           /\ UNCHANGED <<cleaned, pos>>
                      ELSE /\ cleaned' = AppendRecord(cleaned,
                                  Assemble(SummaryOf[item.combined_html],
                                           r.det, item.entry_url))
                           /\ pos' = pos + 1
                           /\ cpc' = cpc
    /\ UNCHANGED <<raw_entries, fetchVars, appVars, loadVars, scrapeVars, parseVars>>

\* the loop is exhausted: return cleaned
CleanReturn ==
    /\ cpc = "loop"
    /\ pos > Len(raw_entries)
    /\ cpc' = "done"
    /\ UNCHANGED <<raw_entries, pos, cleaned, fetch_log, fetchVars, appVars, loadVars, scrapeVars, parseVars>>

\* no load_data call and no scrape_data call is under way
LoadIdle ==
    /\ environ = [k \in {"DATABASE_URL", "DB_HOST", "DB_PORT", "DB_NAME", "DB_USER", "DB_PASSWORD"} |-> NoneVal]
    /\ ld_db_url = NoneVal
    /\ jsonl = <<>>
    /\ lpos = 1
    /\ applicants = <<>>
    /\ before_load = <<>>
    /\ loaded = {}
    /\ connect_log = <<>>
    /\ ld_exc = [cls |-> "", msg |-> <<>>]
    /\ lpc = "idle"

ScrapeIdle ==
    /\ s_robots = "allow"
    /\ s_site = <<>>
    /\ s_target = 0
    /\ s_log = <<>>
    /\ raw_rows = <<>>
    /\ page = 1
    /\ spc = "idle"

ParseIdle ==
    /\ p_fn = "none"
    /\ p_arg = NoneVal
    /\ p_out = <<>>
    /\ p_pc = "idle"

FetchIdle ==
    /\ fd_url = NoneVal
    /\ fd_net = NetRaise("OSError")
    /\ fd_out = [det |-> AllNone, requested |-> FALSE, escaped |-> ""]
    /\ fd_pc = "idle"

CleanIdle ==
    /\ raw_entries = <<>>
    /\ pos = 1
    /\ cleaned = <<>>
    /\ fetch_log = <<>>
    /\ cpc = "idle"

Init ==
    /\ raw_entries \in Batches
    /\ pos = 1
    /\ cleaned = <<>>
    /\ fetch_log = <<>>
    /\ cpc = "loop"
    /\ FetchIdle
    /\ AppInit
    /\ LoadIdle
    /\ ScrapeIdle
    /\ ParseIdle

Next == CleanSkip \/ CleanNoUrl \/ CleanFetch \/ CleanReturn

vars == <<cleanVars, fetchVars, appVars, loadVars, scrapeVars, parseVars>>
Spec == Init /\ [][Next]_vars

(***************************************************************************)
(* _fetch_detail_fields called directly                                    *)
(***************************************************************************)
FetchUrls == {NoneVal, Some(<<>>), Url1}
StatusServerError == 500
StatusMoved == 301
StatusNoContent == 204
FetchStatuses == {StatusOK, StatusNotFound, StatusServerError, StatusMoved, StatusNoContent}
FetchNets ==
    {NetRaise(e) : e \in NetExceptions}
    \cup {NetResp(s, d) : s \in FetchStatuses, d \in DetailDocs}

FetchCall ==
    /\ fd_pc = "call"
    /\ fd_out' = _fetch_detail_fields(fd_url, fd_net)
    /\ fd_pc' = "returned"
    /\ UNCHANGED <<fd_url, fd_net, cleanVars, appVars, loadVars, scrapeVars, parseVars>>

InitFetch ==
    /\ fd_url \in FetchUrls
    /\ fd_net \in FetchNets
    /\ fd_out = [det |-> AllNone, requested |-> FALSE, escaped |-> ""]
    /\ fd_pc = "call"
    /\ CleanIdle
    /\ AppInit
    /\ LoadIdle
    /\ ScrapeIdle
    /\ ParseIdle

NextFetch == FetchCall
SpecFetch == InitFetch /\ [][NextFetch]_vars
(***************************************************************************)
(* The dashboard: src/module_5/src/app.py.  Every `with STATE_LOCK` block  *)
(* is one step; the code between two blocks of a handler or thread runs    *)
(* interleaved with the other handlers and threads.                        *)
(***************************************************************************)
\* requests received in one run
MaxRequests == 2

Routes == {"index", "pull", "update"}

\* the pipeline stages of _background_pull in call order (lines 190-193)
Stages == <<"scrape_data", "clean_data", "write_jsonl", "load_data">>
StageNo(s) == CHOOSE k \in 1..Len(Stages) : Stages[k] = s

\* exceptions a stage may end with: a class the except clause names and an
\* Exception outside it (urllib3's HTTPError, raised by the page request of
\* scrape_data)
StageExceptions == {"RuntimeError", "HTTPError"}
\* the except clause of _background_pull (line 199)
CaughtByPull == {"RuntimeError", "OSError", "ValueError"}

MsgPulling == <<"Pulling new data... please wait.">>
MsgComplete == <<"Pull complete! Click 'Update Analysis' to refresh results.">>
MsgUpdated == <<"Analysis updated.">>
\* f"Pull failed: {exc}"
MsgFailed(exc) == <<"Pull failed: ", exc>>

\* build_results: the answers computed from the rows loaded so far
build_results(rows) == <<rows>>

NewRequest(route) ==
    [route |-> route, pc |-> "start", status |-> 0, body |-> "",
     built |-> FALSE, new_results |-> <<>>]
Respond(req, status, body) == [req EXCEPT !.pc = "done", !.status = status, !.body = body]

\* a thread created by pull_data for request r, not yet scheduled
NewPull(r) == [owner |-> r, pc |-> "start", stages |-> <<>>, exc |-> ""]

\* a client sends a request
Request(route) ==
    /\ Len(reqs) < MaxRequests
    /\ reqs' = Append(reqs, NewRequest(route))
    /\ UNCHANGED <<PULL_STATE, RESULTS_CACHE, HAS_RESULTS, db, pulls, cleanVars, fetchVars, loadVars, scrapeVars, parseVars>>

\* an index that builds whenever nothing is cached, pull or no pull
IndexBuild_mut(r) ==
    /\ reqs[r].route = "index" /\ reqs[r].pc = "start"
    /\ ~HAS_RESULTS
    /\ RESULTS_CACHE' = build_results(db)
    /\ HAS_RESULTS' = TRUE
    /\ reqs' = [reqs EXCEPT ![r] = [Respond(@, 200, "page") EXCEPT !.built = TRUE]]
    /\ UNCHANGED <<PULL_STATE, db, pulls, cleanVars, fetchVars, loadVars, scrapeVars, parseVars>>

\* index (also /analysis): nothing cached and no pull running, build_results
\* returns (lines 232-248)
IndexBuild(r) ==
    /\ reqs[r].route = "index" /\ reqs[r].pc = "start"
    /\ ~HAS_RESULTS /\ ~PULL_STATE.running
    /\ RESULTS_CACHE' = build_results(db)
    /\ HAS_RESULTS' = TRUE
    /\ reqs' = [reqs EXCEPT ![r] = [Respond(@, 200, "page") EXCEPT !.built = TRUE]]
    /\ UNCHANGED <<PULL_STATE, db, pulls, cleanVars, fetchVars, loadVars, scrapeVars, parseVars>>

\* index: build_results raises inside the lock block; the request fails
IndexBuildRaises(r) ==
    /\ reqs[r].route = "index" /\ reqs[r].pc = "start"
    /\ ~HAS_RESULTS /\ ~PULL_STATE.running
    /\ reqs' = [reqs EXCEPT ![r] = [Respond(@, 500, "error") EXCEPT !.built = TRUE]]
    /\ UNCHANGED <<PULL_STATE, RESULTS_CACHE, HAS_RESULTS, db, pulls, cleanVars, fetchVars, loadVars, scrapeVars, parseVars>>

\* index: render the cache as it is
IndexRender(r) ==
    /\ reqs[r].route = "index" /\ reqs[r].pc = "start"
    /\ ~(~HAS_RESULTS /\ ~PULL_STATE.running)
    /\ reqs' = [reqs EXCEPT ![r] = Respond(@, 200, "page")]
    /\ UNCHANGED <<PULL_STATE, RESULTS_CACHE, HAS_RESULTS, db, pulls, cleanVars, fetchVars, loadVars, scrapeVars, parseVars>>

\* pull_data without the busy test
PullBusy_mut(r) ==
    /\ reqs[r].route = "pull" /\ reqs[r].pc = "start"
    /\ PULL_STATE.running
    /\ reqs' = [reqs EXCEPT ![r].pc = "spawn"]
    /\ UNCHANGED <<PULL_STATE, RESULTS_CACHE, HAS_RESULTS, db, pulls, cleanVars, fetchVars, loadVars, scrapeVars, parseVars>>

\* pull_data, lock block with running set: 409 (lines 261-263)
PullBusy(r) ==
    /\ reqs[r].route = "pull" /\ reqs[r].pc = "start"
    /\ PULL_STATE.running
    /\ reqs' = [reqs EXCEPT ![r] = Respond(@, 409, "busy")]
    /\ UNCHANGED <<PULL_STATE, RESULTS_CACHE, HAS_RESULTS, db, pulls, cleanVars, fetchVars, loadVars, scrapeVars, parseVars>>

\* pull_data, lock block with running clear: fall through to the spawn
PullCheckPass(r) ==
    /\ reqs[r].route = "pull" /\ reqs[r].pc = "start"
    /\ ~PULL_STATE.running
    /\ reqs' = [reqs EXCEPT ![r].pc = "spawn"]
    /\ UNCHANGED <<PULL_STATE, RESULTS_CACHE, HAS_RESULTS, db, pulls, cleanVars, fetchVars, loadVars, scrapeVars, parseVars>>

\* pull_data: threading.Thread(target=_background_pull).start(), then 200
\* (lines 265-266)
PullSpawn(r) ==
    /\ reqs[r].route = "pull" /\ reqs[r].pc = "spawn"
    /\ pulls' = Append(pulls, NewPull(r))
    /\ reqs' = [reqs EXCEPT ![r] = Respond(@, 200, "ok")]
    /\ UNCHANGED <<PULL_STATE, RESULTS_CACHE, HAS_RESULTS, db, cleanVars, fetchVars, loadVars, scrapeVars, parseVars>>

\* update_analysis without the busy test
UpdateBusy_mut(r) ==
    /\ reqs[r].route = "update" /\ reqs[r].pc = "start"
    /\ PULL_STATE.running
    /\ reqs' = [reqs EXCEPT ![r].pc = "build"]
    /\ UNCHANGED <<PULL_STATE, RESULTS_CACHE, HAS_RESULTS, db, pulls, cleanVars, fetchVars, loadVars, scrapeVars, parseVars>>

\* update_analysis, lock block with running set: 409 (lines 281-283)
UpdateBusy(r) ==
    /\ reqs[r].route = "update" /\ reqs[r].pc = "start"
    /\ PULL_STATE.running
    /\ reqs' = [reqs EXCEPT ![r] = Respond(@, 409, "busy")]
    /\ UNCHANGED <<PULL_STATE, RESULTS_CACHE, HAS_RESULTS, db, pulls, cleanVars, fetchVars, loadVars, scrapeVars, parseVars>>

\* update_analysis, lock block with running clear: go on to build_results
UpdateCheckPass(r) ==
    /\ reqs[r].route = "update" /\ reqs[r].pc = "start"
    /\ ~PULL_STATE.running
    /\ reqs' = [reqs EXCEPT ![r].pc = "build"]
    /\ UNCHANGED <<PULL_STATE, RESULTS_CACHE, HAS_RESULTS, db, pulls, cleanVars, fetchVars, loadVars, scrapeVars, parseVars>>

\* update_analysis: new_results = build_results(), outside the lock
\* (line 285)
UpdateBuild(r) ==
    /\ reqs[r].route = "update" /\ reqs[r].pc = "build"
    /\ reqs' = [reqs EXCEPT ![r].pc = "store", ![r].built = TRUE,
                            ![r].new_results = build_results(db)]
    /\ UNCHANGED <<PULL_STATE, RESULTS_CACHE, HAS_RESULTS, db, pulls, cleanVars, fetchVars, loadVars, scrapeVars, parseVars>>

\* update_analysis: build_results raises; the request fails
UpdateBuildRaises(r) ==
    /\ reqs[r].route = "update" /\ reqs[r].pc = "build"
    /\ reqs' = [reqs EXCEPT ![r] = [Respond(@, 500, "error") EXCEPT !.built = TRUE]]
    /\ UNCHANGED <<PULL_STATE, RESULTS_CACHE, HAS_RESULTS, db, pulls, cleanVars, fetchVars, loadVars, scrapeVars, parseVars>>

\* update_analysis: the second lock block, then 200 (lines 287-292)
UpdateStore(r) ==
    /\ reqs[r].route = "update" /\ reqs[r].pc = "store"
    /\ RESULTS_CACHE' = reqs[r].new_results
    /\ HAS_RESULTS' = TRUE
    /\ PULL_STATE' = [PULL_STATE EXCEPT !.message = MsgUpdated]
    /\ reqs' = [reqs EXCEPT ![r] = [Respond(@, 200, "ok") EXCEPT !.new_results = <<>>]]
    /\ UNCHANGED <<db, pulls, cleanVars, fetchVars, loadVars, scrapeVars, parseVars>>

\* _background_pull: the first lock block, then the call of scrape_data
\* (lines 185-190)
BgStart(t) ==
    /\ pulls[t].pc = "start"
    /\ PULL_STATE' = [running |-> TRUE, message |-> MsgPulling]
    /\ pulls' = [pulls EXCEPT ![t].pc = Stages[1], ![t].stages = <<Stages[1]>>]
    /\ UNCHANGED <<RESULTS_CACHE, HAS_RESULTS, db, reqs, cleanVars, fetchVars, loadVars, scrapeVars, parseVars>>

\* load_data called before write_jsonl
AfterStage_mut(s) ==
    IF s = "clean_data" THEN "load_data"
    ELSE IF s = "load_data" THEN "write_jsonl"
    ELSE IF s = "write_jsonl" THEN "complete"
    ELSE "clean_data"

\* the position after stage s returned: the next stage, or the lock block
\* that reports completion
AfterStage(s) == IF StageNo(s) < Len(Stages) THEN Stages[StageNo(s) + 1] ELSE "complete"

InStage(t) == \E k \in 1..Len(Stages) : pulls[t].pc = Stages[k]

\* the running stage returns and the thread calls the next one; a returned
\* load_data has committed its rows
BgStageReturns(t) ==
    /\ InStage(t)
    /\ LET nxt == AfterStage(pulls[t].pc)
       IN pulls' = [pulls EXCEPT ![t].pc = nxt,
                                 ![t].stages = IF nxt = "complete" THEN @ ELSE Append(@, nxt)]
    /\ db' = IF pulls[t].pc = "load_data" THEN db + 1 ELSE db
    /\ UNCHANGED <<PULL_STATE, RESULTS_CACHE, HAS_RESULTS, reqs, cleanVars, fetchVars, loadVars, scrapeVars, parseVars>>

\* a thread that dies on an exception its except clause does not name
BgStageRaises_mut(t, exc) ==
    /\ InStage(t)
    /\ pulls' = [pulls EXCEPT ![t].exc = exc,
                              ![t].pc = IF exc \in CaughtByPull THEN "except" ELSE "done"]
    /\ UNCHANGED <<PULL_STATE, RESULTS_CACHE, HAS_RESULTS, db, reqs, cleanVars, fetchVars, loadVars, scrapeVars, parseVars>>

\* the running stage raises exc: to the except block when the clause names
\* the class, straight to finally otherwise
BgStageRaises(t, exc) ==
    /\ InStage(t)
    /\ pulls' = [pulls EXCEPT ![t].exc = exc,
                              ![t].pc = IF exc \in CaughtByPull THEN "except" ELSE "finally"]
    /\ UNCHANGED <<PULL_STATE, RESULTS_CACHE, HAS_RESULTS, db, reqs, cleanVars, fetchVars, loadVars, scrapeVars, parseVars>>

\* a completion block that also refreshes the cache
BgComplete_mut(t) ==
    /\ pulls[t].pc = "complete"
    /\ PULL_STATE' = [PULL_STATE EXCEPT !.message = MsgComplete]
    /\ RESULTS_CACHE' = build_results(db)
    /\ pulls' = [pulls EXCEPT ![t].pc = "finally"]
    /\ UNCHANGED <<HAS_RESULTS, db, reqs, cleanVars, fetchVars, loadVars, scrapeVars, parseVars>>

\* the lock block after load_data (lines 195-198)
BgComplete(t) ==
    /\ pulls[t].pc = "complete"
    /\ PULL_STATE' = [PULL_STATE EXCEPT !.message = MsgComplete]
    /\ pulls' = [pulls EXCEPT ![t].pc = "finally"]
    /\ UNCHANGED <<RESULTS_CACHE, HAS_RESULTS, db, reqs, cleanVars, fetchVars, loadVars, scrapeVars, parseVars>>

\* the except block (lines 199-201)
BgExcept(t) ==
    /\ pulls[t].pc = "except"
    /\ PULL_STATE' = [PULL_STATE EXCEPT !.message = MsgFailed(pulls[t].exc)]
    /\ pulls' = [pulls EXCEPT ![t].pc = "finally"]
    /\ UNCHANGED <<RESULTS_CACHE, HAS_RESULTS, db, reqs, cleanVars, fetchVars, loadVars, scrapeVars, parseVars>>

\* the finally block (lines 202-204)
BgFinally(t) ==
    /\ pulls[t].pc = "finally"
    /\ PULL_STATE' = [PULL_STATE EXCEPT !.running = FALSE]
    /\ pulls' = [pulls EXCEPT ![t].pc = "done"]
    /\ UNCHANGED <<RESULTS_CACHE, HAS_RESULTS, db, reqs, cleanVars, fetchVars, loadVars, scrapeVars, parseVars>>

InitApp ==
    /\ AppInit
    /\ CleanIdle
    /\ FetchIdle
    /\ LoadIdle
    /\ ScrapeIdle
    /\ ParseIdle

NextApp ==
    \/ \E route \in Routes : Request(route)
    \/ \E r \in 1..Len(reqs) :
          \/ IndexBuild(r) \/ IndexBuildRaises(r) \/ IndexRender(r)
          \/ PullBusy(r) \/ PullCheckPass(r) \/ PullSpawn(r)
          \/ UpdateBusy(r) \/ UpdateCheckPass(r) \/ UpdateBuild(r)
          \/ UpdateBuildRaises(r) \/ UpdateStore(r)
    \/ \E t \in 1..Len(pulls) :
          \/ BgStart(t) \/ BgStageReturns(t)
          \/ \E exc \in StageExceptions : BgStageRaises(t, exc)
          \/ BgComplete(t) \/ BgExcept(t) \/ BgFinally(t)

SpecApp == InitApp /\ [][NextApp]_vars

\* the steps of thread t: it is scheduled, every stage it calls returns or
\* raises, and its lock blocks are entered
BgStep(t) ==
    /\ \/ BgStart(t) \/ BgStageReturns(t)
       \/ \E exc \in StageExceptions : BgStageRaises(t, exc)
       \/ BgComplete(t) \/ BgExcept(t) \/ BgFinally(t)

\* the steps of the handler of request r
HandlerStep(r) ==
    /\ \/ IndexBuild(r) \/ IndexBuildRaises(r) \/ IndexRender(r)
       \/ PullBusy(r) \/ PullCheckPass(r) \/ PullSpawn(r)
       \/ UpdateBusy(r) \/ UpdateCheckPass(r) \/ UpdateBuild(r)
       \/ UpdateBuildRaises(r) \/ UpdateStore(r)

\* while some thread can take a step, a thread takes one; while some
\* handler can take a step, a handler takes one
SpecAppFair ==
    /\ SpecApp
    /\ WF_vars(\E t \in 1..Len(pulls) : BgStep(t))
    /\ WF_vars(\E r \in 1..Len(reqs) : HandlerStep(r))

(***************************************************************************)
(* Database access: src/module_5/src/db_config.py, load_data.py and        *)
(* query_data.get_conn                                                     *)
(***************************************************************************)
\* load_data calls in one run
MaxLoads == 2
\* lines of a JSONL file
MaxLines == 2

EnvKeys == {"DATABASE_URL", "DB_HOST", "DB_PORT", "DB_NAME", "DB_USER", "DB_PASSWORD"}
\* the list `required` (db_config.py lines 22 and 76)
RequiredKeys == <<"DB_HOST", "DB_PORT", "DB_NAME", "DB_USER", "DB_PASSWORD">>

\* os.getenv(k): None when the variable is unset
getenv(env, k) == env[k]

Returned(url) == [exc |-> "", msg |-> <<>>, url |-> url]
Raised(cls, msg) == [exc |-> cls, msg |-> msg, url |-> <<>>]
NoException == [cls |-> "", msg |-> <<>>]

\* urllib.parse.quote_plus on the characters the sample passwords hold:
\* letters and digits stay, a space becomes "+", reserved characters are
\* percent-encoded
QuotePlusCh(c) ==
    IF c = " " THEN <<"+">>
    ELSE IF c = "@" THEN <<"%", "4", "0">>
    ELSE IF c = ":" THEN <<"%", "3", "A">>
    ELSE IF c = "/" THEN <<"%", "2", "F">>
    ELSE <<c>>
RECURSIVE quote_plus(_)
quote_plus(t) == IF t = <<>> THEN <<>> ELSE QuotePlusCh(Head(t)) \o quote_plus(Tail(t))

\* get_db_settings followed by the f-string of build_db_url_from_env
build_db_url_from_env(env) ==
    LET missing == SelectSeq(RequiredKeys, LAMBDA k : ~Truthy(getenv(env, k)))
    IN IF missing # <<>>
       THEN Raised("RuntimeError", <<"Missing required DB environment variables: ", missing>>)
       ELSE Returned(<<"p","o","s","t","g","r","e","s","q","l",":","/","/">>
                     \o env["DB_USER"].txt \o <<":">> \o quote_plus(env["DB_PASSWORD"].txt)
                     \o <<"@">> \o env["DB_HOST"].txt \o <<":">> \o env["DB_PORT"].txt
                     \o <<"/">> \o env["DB_NAME"].txt)

M_NotSet == <<"DATABASE_URL is not set">>

resolve_db_url_mut(db_url, env) ==
    IF Truthy(getenv(env, "DATABASE_URL")) THEN Returned(getenv(env, "DATABASE_URL").txt)
    ELSE IF Truthy(db_url) THEN Returned(db_url.txt)
    ELSE IF \A k \in 1..Len(RequiredKeys) : Truthy(getenv(env, RequiredKeys[k]))
         THEN build_db_url_from_env(env)
    ELSE Raised("RuntimeError", M_NotSet)

resolve_db_url(db_url, env) ==
    IF Truthy(db_url) THEN Returned(db_url.txt)
    ELSE IF Truthy(getenv(env, "DATABASE_URL")) THEN Returned(getenv(env, "DATABASE_URL").txt)
    ELSE IF \A k \in 1..Len(RequiredKeys) : Truthy(getenv(env, RequiredKeys[k]))
         THEN build_db_url_from_env(env)
    ELSE Raised("RuntimeError", M_NotSet)

\* str(None) inside an f-string
FmtStr(v) == IF IsNone(v) THEN <<"N","o","n","e">> ELSE v.txt

\* TO_DATE(NULLIF(%s, ''), 'Month DD, YYYY'): NULL for NULL and for the
\* empty string, otherwise the date the text names, written as the tag
\* "date" before the text it was parsed from
TO_DATE(v) == IF IsNone(v) \/ v.txt = <<>> THEN NoneVal ELSE Some(<<"date">> \o v.txt)

\* a or b on optional strings
OrElse(a, b) == IF Truthy(a) THEN a ELSE b

\* the parameter tuple of cur.execute(INSERT_SQL, ...) as the stored row
\* (load_data.py lines 116-146)
InsertParams(row) ==
    [program |-> Some(FmtStr(row.university) \o <<" ","-"," ">> \o FmtStr(row.program_name)),
     comments |-> row.comments,
     date_added |-> TO_DATE(row.date_added),
     url |-> row.entry_url,
     status |-> row.applicant_status,
     term |-> row.start_term,
     us_or_international |-> row.international_american,
     gpa |-> row.gpa,
     gre |-> row.gre_score,
     gre_v |-> row.gre_v_score,
     gre_aw |-> row.gre_aw,
     degree |-> row.degree,
     llm_generated_program |-> OrElse(row.llm_dash_program, row.llm_generated_program),
     llm_generated_university |-> OrElse(row.llm_dash_university, row.llm_generated_university)]

\* url TEXT UNIQUE with ON CONFLICT (url) DO NOTHING: a row whose url is
\* already stored is dropped; NULL never equals NULL, so rows with a NULL
\* url never conflict
Conflicts(tbl, r) == ~IsNone(r.url) /\ \E k \in 1..Len(tbl) : tbl[k].url = r.url
\* ON CONFLICT (url) DO UPDATE: the stored row takes the new fields
INSERT_upsert(tbl, r) ==
    IF Conflicts(tbl, r)
    THEN [k \in 1..Len(tbl) |-> IF tbl[k].url = r.url THEN r ELSE tbl[k]]
    ELSE Append(tbl, r)

INSERT(tbl, r) == IF Conflicts(tbl, r) THEN tbl ELSE Append(tbl, r)


\* a line of the file: one that strips to nothing, a JSON object, or text
\* json.loads rejects
BlankLine == [kind |-> "blank", row |-> <<>>]
JsonLine(row) == [kind |-> "json", row |-> row]
GarbageLine == [kind |-> "garbage", row |-> <<>>]

\* a record as write_jsonl stores it; the llm keys are absent (row.get
\* answers None)
Applicant(university, program_name, entry_url) ==
    [program_name |-> program_name,
     university |-> university,
     comments |-> Some(<<"x">>),
     date_added |-> Some(<<"J","a","n","u","a","r","y"," ","1",","," ","2","0","2","6">>),
     entry_url |-> entry_url,
     applicant_status |-> Some(<<"A","c","c","e","p","t","e","d">>),
     acceptance_date |-> NoneVal,
     rejection_date |-> NoneVal,
     start_term |-> Some(<<"F","a","l","l"," ","2","0","2","6">>),
     international_american |-> Some(<<"A","m","e","r","i","c","a","n">>),
     gre_score |-> NoneVal,
     gre_v_score |-> NoneVal,
     gre_aw |-> NoneVal,
     degree |-> Some(<<"M","a","s","t","e","r","s">>),
     gpa |-> Some(<<"3",".","5">>),
     llm_dash_program |-> NoneVal,
     llm_generated_program |-> NoneVal,
     llm_dash_university |-> NoneVal,
     llm_generated_university |-> NoneVal]

\* two records sharing a URL, one with its own URL, one without a URL
LoadLines ==
    {JsonLine(Applicant(Some(<<"T","e","s","t"," ","U">>), Some(<<"C","S">>), Url1)),
     JsonLine(Applicant(Some(<<"O","t","h","e","r"," ","U">>), NoneVal, Url1)),
     JsonLine(Applicant(Some(<<"T","e","s","t"," ","U">>), Some(<<"C","S">>), Url2)),
     JsonLine(Applicant(Some(<<"T","e","s","t"," ","U">>), Some(<<"C","S">>), NoneVal)),
     BlankLine, GarbageLine}
LoadFiles == UNION {[1..n -> LoadLines] : n \in 0..MaxLines}

DbUrlArg == Some(<<"p","o","s","t","g","r","e","s","q","l",":","/","/","a","r","g">>)
DbUrlEnv == Some(<<"p","o","s","t","g","r","e","s","q","l",":","/","/","e","n","v">>)
UnsetEnv == [k \in EnvKeys |-> NoneVal]
LoadEnvs == {UnsetEnv, [UnsetEnv EXCEPT !["DATABASE_URL"] = DbUrlEnv]}

\* load_data is called with file f (line 83)
LoadCall(f) ==
    /\ lpc \in {"ready", "done"}
    /\ Len(connect_log) < MaxLoads
    /\ jsonl' = f
    /\ lpos' = 1
    /\ before_load' = applicants
    /\ lpc' = "resolve"
    /\ UNCHANGED <<environ, ld_db_url, applicants, loaded, connect_log, ld_exc, cleanVars, fetchVars, appVars, scrapeVars, parseVars>>

\* resolve_db_url returns and psycopg.connect opens the connection; CREATE
\* TABLE IF NOT EXISTS leaves an existing table alone (lines 102-106)
LoadConnect ==
    /\ lpc = "resolve"
    /\ resolve_db_url(ld_db_url, environ).exc = ""
    /\ connect_log' = Append(connect_log, resolve_db_url(ld_db_url, environ).url)
    /\ lpc' = "rows"
    /\ UNCHANGED <<environ, ld_db_url, jsonl, lpos, applicants, before_load, loaded, ld_exc, cleanVars, fetchVars, appVars, scrapeVars, parseVars>>

\* psycopg.connect is called and raises
LoadConnectFails ==
    /\ lpc = "resolve"
    /\ resolve_db_url(ld_db_url, environ).exc = ""
    /\ connect_log' = Append(connect_log, resolve_db_url(ld_db_url, environ).url)
    /\ ld_exc' = [cls |-> "OperationalError", msg |-> <<>>]
    /\ lpc' = "raised"
    /\ UNCHANGED <<environ, ld_db_url, jsonl, lpos, applicants, before_load, loaded, cleanVars, fetchVars, appVars, scrapeVars, parseVars>>

\* resolve_db_url raises: the exception leaves load_data at line 102
LoadResolveRaises ==
    /\ lpc = "resolve"
    /\ resolve_db_url(ld_db_url, environ).exc # ""
    /\ ld_exc' = [cls |-> resolve_db_url(ld_db_url, environ).exc,
                  msg |-> resolve_db_url(ld_db_url, environ).msg]
    /\ lpc' = "raised"
    /\ UNCHANGED <<environ, ld_db_url, jsonl, lpos, applicants, before_load, loaded, connect_log, cleanVars, fetchVars, appVars, scrapeVars, parseVars>>

\* a line that strips to nothing is skipped (lines 110-112)
LoadSkipBlank ==
    /\ lpc = "rows" /\ lpos <= Len(jsonl)
    /\ jsonl[lpos].kind = "blank"
    /\ lpos' = lpos + 1
    /\ UNCHANGED <<environ, ld_db_url, jsonl, applicants, before_load, loaded, connect_log, ld_exc, lpc, cleanVars, fetchVars, appVars, scrapeVars, parseVars>>

\* json.loads and the INSERT of one line (lines 114-146)
LoadInsert ==
    /\ lpc = "rows" /\ lpos <= Len(jsonl)
    /\ jsonl[lpos].kind = "json"
    /\ applicants' = INSERT(applicants, InsertParams(jsonl[lpos].row))
    /\ lpos' = lpos + 1
    /\ UNCHANGED <<environ, ld_db_url, jsonl, before_load, loaded, connect_log, ld_exc, lpc, cleanVars, fetchVars, appVars, scrapeVars, parseVars>>

\* json.loads raises: the connection block rolls the transaction back
LoadBadLine ==
    /\ lpc = "rows" /\ lpos <= Len(jsonl)
    /\ jsonl[lpos].kind = "garbage"
    /\ applicants' = before_load
    /\ ld_exc' = [cls |-> "ValueError", msg |-> <<>>]
    /\ lpc' = "raised"
    /\ UNCHANGED <<environ, ld_db_url, jsonl, lpos, before_load, loaded, connect_log, cleanVars, fetchVars, appVars, scrapeVars, parseVars>>

\* conn.commit() after the last line (line 148)
LoadCommit ==
    /\ lpc = "rows" /\ lpos > Len(jsonl)
    /\ loaded' = loaded \cup {jsonl}
    /\ lpc' = "done"
    /\ UNCHANGED <<environ, ld_db_url, jsonl, lpos, applicants, before_load, connect_log, ld_exc, cleanVars, fetchVars, appVars, scrapeVars, parseVars>>

\* query_data.get_conn: resolve, then connect (query_data.py lines 63-64)
GetConn ==
    /\ lpc = "ready"
    /\ Len(connect_log) < MaxLoads
    /\ resolve_db_url(ld_db_url, environ).exc = ""
    /\ connect_log' = Append(connect_log, resolve_db_url(ld_db_url, environ).url)
    /\ UNCHANGED <<environ, ld_db_url, jsonl, lpos, applicants, before_load, loaded, ld_exc, lpc, cleanVars, fetchVars, appVars, scrapeVars, parseVars>>

GetConnRaises ==
    /\ lpc = "ready"
    /\ resolve_db_url(ld_db_url, environ).exc # ""
    /\ ld_exc' = [cls |-> resolve_db_url(ld_db_url, environ).exc,
                  msg |-> resolve_db_url(ld_db_url, environ).msg]
    /\ lpc' = "conn_raised"
    /\ UNCHANGED <<environ, ld_db_url, jsonl, lpos, applicants, before_load, loaded, connect_log, cleanVars, fetchVars, appVars, scrapeVars, parseVars>>

LoadReady ==
    /\ jsonl = <<>>
    /\ lpos = 1
    /\ applicants = <<>>
    /\ before_load = <<>>
    /\ loaded = {}
    /\ connect_log = <<>>
    /\ ld_exc = NoException
    /\ lpc = "ready"

InitLoad ==
    /\ environ \in LoadEnvs
    /\ ld_db_url \in {NoneVal, DbUrlArg}
    /\ LoadReady
    /\ CleanIdle
    /\ FetchIdle
    /\ AppInit
    /\ ScrapeIdle
    /\ ParseIdle

NextLoad ==
    \/ \E f \in LoadFiles : LoadCall(f)
    \/ LoadConnect \/ LoadConnectFails \/ LoadResolveRaises
    \/ LoadSkipBlank \/ LoadInsert \/ LoadBadLine \/ LoadCommit

SpecLoad == InitLoad /\ [][NextLoad]_vars

\* every combination of unset, empty and set for the argument, for
\* DATABASE_URL and for DB_HOST, of unset and set for the other four
ResolveEnvs ==
    {[k \in EnvKeys |->
        IF k = "DATABASE_URL" THEN d
        ELSE IF k = "DB_HOST" THEN h
        ELSE IF k = "DB_PASSWORD" /\ ~IsNone(o[k]) THEN Some(<<"p","@"," ","s">>)
        ELSE o[k]] :
       d \in {NoneVal, Some(<<>>), DbUrlEnv},
       h \in {NoneVal, Some(<<>>), Some(<<"h","o","s","t">>)},
       o \in [{"DB_PORT", "DB_NAME", "DB_USER", "DB_PASSWORD"} -> {NoneVal, Some(<<"v">>)}]}

InitResolve ==
    /\ environ \in ResolveEnvs
    /\ ld_db_url \in {NoneVal, Some(<<>>), DbUrlArg}
    /\ LoadReady
    /\ CleanIdle
    /\ FetchIdle
    /\ AppInit
    /\ ScrapeIdle
    /\ ParseIdle

NextResolve ==
    \/ LoadCall(<<>>)
    \/ LoadConnect \/ LoadConnectFails \/ LoadResolveRaises \/ LoadCommit
    \/ GetConn \/ GetConnRaises

SpecResolve == InitResolve /\ [][NextResolve]_vars

(***************************************************************************)
(* _parse_program_and_degree and _parse_decision called directly           *)
(***************************************************************************)
\* words a program cell may carry right of the separator
DegreeTokens ==
    {<<>>, <<"P","h","D">>, <<"P","h",".","D">>, <<"P","H","D">>, <<"p","h","d">>, <<"P","s","y","D">>, <<"M","a","s","t","e","r","s">>, <<"P","s","y","c","h","o","l","o","g","y">>}
ProgramLefts == {<<"C","o","m","p","u","t","e","r"," ","S","c","i","e","n","c","e">>, <<"M","a","s","t","e","r","s"," ","C","S">>}
\* the argument _extract_summary_fields passes: _norm(cell text) or ""
\* (lines 295-297)
ProgramArg(t) == Some(OrEmpty(_norm(Some(t))))
ProgramArgs ==
    {ProgramArg(l \o <<" ", MidDot, " ">> \o a \o <<" ">> \o b) :
        l \in ProgramLefts, a \in DegreeTokens, b \in DegreeTokens}
    \cup {ProgramArg(t) : t \in {<<>>, <<"C","o","m","p","u","t","e","r"," ","S","c","i","e","n","c","e">>, <<"P","h","y","s","i","c","s"," ","P","h","D">>, <<"P","h",".","D"," ","P","h","y","s","i","c","s">>}}

DecisionWords == {<<>>, <<"A","c","c","e","p","t","e","d">>, <<"r","e","j","e","c","t","e","d">>, <<"W","A","I","T","l","i","s","t","e","d">>, <<"I","n","t","e","r","v","i","e","w">>}
\* the argument _extract_summary_fields passes, _norm(cell text) (line 300),
\* and the empty string of a direct call
DecisionArgs ==
    {_norm(Some(a \o <<" ">> \o b \o <<" ">> \o d)) :
        a \in DecisionWords, b \in DecisionWords, d \in {<<>>, <<"1","2"," ","F","e","b">>}}
    \cup {NoneVal, Some(<<>>)}

ParseProgramCall ==
    /\ p_pc = "call" /\ p_fn = "_parse_program_and_degree"
    /\ p_out' = _parse_program_and_degree(p_arg.txt)
    /\ p_pc' = "returned"
    /\ UNCHANGED <<p_fn, p_arg, cleanVars, fetchVars, appVars, loadVars, scrapeVars>>

ParseDecisionCall ==
    /\ p_pc = "call" /\ p_fn = "_parse_decision"
    /\ p_out' = _parse_decision(p_arg)
    /\ p_pc' = "returned"
    /\ UNCHANGED <<p_fn, p_arg, cleanVars, fetchVars, appVars, loadVars, scrapeVars>>

InitParse ==
    /\ \/ p_fn = "_parse_program_and_degree" /\ p_arg \in ProgramArgs
       \/ p_fn = "_parse_decision" /\ p_arg \in DecisionArgs
    /\ p_out = <<>>
    /\ p_pc = "call"
    /\ CleanIdle
    /\ FetchIdle
    /\ AppInit
    /\ LoadIdle
    /\ ScrapeIdle

NextParse == ParseProgramCall \/ ParseDecisionCall
SpecParse == InitParse /\ [][NextParse]_vars

(***************************************************************************)
(* scrape_data: src/module_4/src/scrape.py                                 *)
(***************************************************************************)
\* listing pages the site serves before it runs out of tables
MaxPages == 2
\* the largest target handed to scrape_data
MaxTarget == 3
\* the highest page number written down.  Every page number past the
\* listed pages of a site is answered alike, so a run that has requested
\* page MaxPageNo goes on as from the first page number past the list: the
\* page number and the log are folded back to that point
MaxPageNo == MaxPages + 2

base_url == <<"h","t","t","p","s",":","/","/","w","w","w",".","t","h","e","g","r","a","d","c","a","f","e",".","c","o","m">>

\* parse.urljoin(base_url, href) for an absolute URL, an absolute path and
\* a relative path
urljoin(base, href) ==
    IF OccursAt(<<"h","t","t","p">>, href, 1) THEN href
    ELSE IF href # <<>> /\ href[1] = "/" THEN base \o href
    ELSE base \o <<"/">> \o href

\* a <tr> of the listing table: its <td> cells and the href of its first
\* <a href>, None without one
SiteRow(cells, href) == [cells |-> cells, href |-> href]
NoTablePage == [table |-> FALSE, rows |-> <<>>]
TablePage(rows) == [table |-> TRUE, rows |-> rows]

\* the record appended for row i of rows: the row and up to two rows after
\* it, and the joined URL (lines 92-110)
RawRow(rows, i) ==
    [combined_html |-> Html([k \in 1..(IF i + 2 <= Len(rows) THEN 3 ELSE Len(rows) - i + 1)
                               |-> rows[i + k - 1].cells]),
     entry_url |-> IF IsNone(rows[i].href) THEN NoneVal
                   ELSE Some(urljoin(base_url, rows[i].href.txt))]

\* the for loop over the rows of one page from row i on: rows with fewer
\* than four cells are passed over, the loop breaks at the target
\* (lines 86-113)
RECURSIVE ScanRows(_, _, _, _)
ScanRows(rows, i, acc, target) ==
    IF i > Len(rows) THEN acc
    ELSE IF Len(rows[i].cells) < MinCells THEN ScanRows(rows, i + 1, acc, target)
    ELSE LET acc1 == Append(acc, RawRow(rows, i))
         IN IF Len(acc1) >= target THEN acc1 ELSE ScanRows(rows, i + 1, acc1, target)

RobotsRequest == [kind |-> "robots.txt", n |-> 0]
PageRequest(n) == [kind |-> "page", n |-> n]

\* the page the site answers with: s_site lists its first pages, and every
\* page number past them is answered like the last one listed
PageServed(n) ==
    IF n <= Len(s_site) THEN s_site[n]
    ELSE IF s_site = <<>> THEN NoTablePage
    ELSE s_site[Len(s_site)]

\* _check_robots: robots.txt is read and allows the survey path
\* (lines 39-44)
ScrapeRobotsAllowed ==
    /\ spc = "robots" /\ s_robots = "allow"
    /\ s_log' = Append(s_log, RobotsRequest)
    /\ spc' = "loop"
    /\ UNCHANGED <<s_robots, s_site, s_target, raw_rows, page, cleanVars, fetchVars, appVars, loadVars, parseVars>>

\* a _check_robots that reports and goes on
ScrapeRobotsDisallowed_mut ==
    /\ spc = "robots" /\ s_robots = "disallow"
    /\ s_log' = Append(s_log, RobotsRequest)
    /\ spc' = "loop"
    /\ UNCHANGED <<s_robots, s_site, s_target, raw_rows, page, cleanVars, fetchVars, appVars, loadVars, parseVars>>

\* _check_robots: the path is disallowed, exit() raises SystemExit
\* (lines 44-46)
ScrapeRobotsDisallowed ==
    /\ spc = "robots" /\ s_robots = "disallow"
    /\ s_log' = Append(s_log, RobotsRequest)
    /\ spc' = "SystemExit"
    /\ UNCHANGED <<s_robots, s_site, s_target, raw_rows, page, cleanVars, fetchVars, appVars, loadVars, parseVars>>

\* _check_robots: parser.read() raises (line 41)
ScrapeRobotsError ==
    /\ spc = "robots" /\ s_robots = "error"
    /\ s_log' = Append(s_log, RobotsRequest)
    /\ spc' = "raised"
    /\ UNCHANGED <<s_robots, s_site, s_target, raw_rows, page, cleanVars, fetchVars, appVars, loadVars, parseVars>>

\* the while test fails: return raw_rows (lines 72 and 117)
ScrapeReturn ==
    /\ spc = "loop"
    /\ Len(raw_rows) >= s_target
    /\ spc' = "done"
    /\ UNCHANGED <<s_robots, s_site, s_target, s_log, raw_rows, page, cleanVars, fetchVars, appVars, loadVars, parseVars>>

\* a page without table ends the loop (lines 76-81)
ScrapeNoTable ==
    /\ spc = "loop"
    /\ Len(raw_rows) < s_target
    /\ ~PageServed(page).table
    /\ s_log' = Append(s_log, PageRequest(page))
    /\ spc' = "done"
    /\ UNCHANGED <<s_robots, s_site, s_target, raw_rows, page, cleanVars, fetchVars, appVars, loadVars, parseVars>>

\* a page with a table: its rows are scanned, then page += 1
\* (lines 76-115)
ScrapePage ==
    /\ spc = "loop"
    /\ Len(raw_rows) < s_target
    /\ PageServed(page).table
    /\ raw_rows' = ScanRows(PageServed(page).rows, 1, raw_rows, s_target)
    /\ IF page < MaxPageNo
       THEN /\ s_log' = Append(s_log, PageRequest(page))
            /\ page' = page + 1
       ELSE /\ s_log' = SubSeq(s_log, 1, Len(s_site) + 1)
            /\ page' = Len(s_site) + 1
    /\ UNCHANGED <<s_robots, s_site, s_target, spc, cleanVars, fetchVars, appVars, loadVars, parseVars>>

\* the page request raises (line 76)
ScrapePageRaises ==
    /\ spc = "loop"
    /\ Len(raw_rows) < s_target
    /\ s_log' = Append(s_log, PageRequest(page))
    /\ spc' = "raised"
    /\ UNCHANGED <<s_robots, s_site, s_target, raw_rows, page, cleanVars, fetchVars, appVars, loadVars, parseVars>>

\* listing rows: a result row with a link, one without, a short row, and
\* the tag row that follows a result
SiteRows ==
    <<SiteRow(Row4(T_Univ, T_Math, T_Date, <<"A","c","c","e","p","t","e","d">>), Some(<<"/","r","e","s","u","l","t","/","1">>)),
      SiteRow(<<Cell(T_TagRow)>>, NoneVal),
      SiteRow(Row4(<<"J","H","U">>, T_Math, T_Date, <<"R","e","j","e","c","t","e","d">>), NoneVal),
      SiteRow(Row4(<<"J","H","U">>, T_Math, T_Date, <<"R","e","j","e","c","t","e","d">>), Some(<<"r","e","s","u","l","t","/","2">>))>>
\* pages: no table, an empty table, one result with its tag row, the four
\* rows, and a result without tag row ahead of a result with one
SitePages ==
    {NoTablePage, TablePage(<<>>),
     TablePage(SubSeq(SiteRows, 1, 2)), TablePage(SiteRows),
     TablePage(<<SiteRows[3], SiteRows[1], SiteRows[2]>>)}
Sites == UNION {[1..n -> SitePages] : n \in 0..MaxPages}

InitScrape ==
    /\ s_robots \in {"allow", "disallow", "error"}
    /\ s_site \in Sites
    /\ s_target \in 0..MaxTarget
    /\ s_log = <<>>
    /\ raw_rows = <<>>
    /\ page = 1
    /\ spc = "robots"
    /\ CleanIdle
    /\ FetchIdle
    /\ AppInit
    /\ LoadIdle
    /\ ParseIdle

NextScrape ==
    \/ ScrapeRobotsAllowed \/ ScrapeRobotsDisallowed \/ ScrapeRobotsError
    \/ ScrapeReturn \/ ScrapeNoTable \/ ScrapePage \/ ScrapePageRaises

SpecScrape == InitScrape /\ [][NextScrape]_vars

\* a call that is running goes on running: every step of scrape_data that
\* does not raise is eventually taken (a request may raise, it need not)
ScrapeProgress ==
    \/ ScrapeRobotsAllowed \/ ScrapeRobotsDisallowed \/ ScrapeRobotsError
    \/ ScrapeReturn \/ ScrapeNoTable \/ ScrapePage
SpecScrapeFair == SpecScrape /\ WF_vars(ScrapeProgress)

(***************************************************************************)
(* The monolithic clean_data: src/module_4/src/clean.py.  _norm and         *)
(* _get_value are the same text in both modules.                           *)
(***************************************************************************)
\* lines 87-185 on one listing fragment: kind "skip" for the `continue`
\* tests, "raise" when re.sub is handed None (program_name is the
\* normalised cell text, None for a blank cell), "ok" with the fields
m4_listing(soup) ==
    IF soup.rows = <<>> \/ Len(soup.rows[1]) < MinCells
    THEN [kind |-> "skip", exc |-> "", base |-> NoBase]
    ELSE LET cols == soup.rows[1]
             program_text == _norm(Some(CellText(cols[2])))
             d == IF Truthy(program_text) THEN DotIndex(program_text.txt) ELSE 0
             name0 == IF d = 0 THEN program_text
                      ELSE Some(Strip(Slice(program_text.txt, 1, d - 1)))
             degree == IF d = 0 THEN NoneVal
                       ELSE LET degree_part == Lower(Slice(program_text.txt, d + 1, Len(program_text.txt)))
                            IN IF Contains(degree_part, W_phd) THEN Some(W_PhD)
                               ELSE IF Contains(degree_part, W_master) THEN Some(W_Masters)
                               ELSE IF Contains(degree_part, W_psy) THEN Some(W_PsyD)
                               ELSE NoneVal
             decision_text == _norm(Some(CellText(cols[4])))
             dlow == Lower(OrEmpty(decision_text))
             status == IF ~Truthy(decision_text) THEN NoneVal
                       ELSE IF Contains(dlow, W_accept) THEN Some(W_Accepted)
                       ELSE IF Contains(dlow, W_reject) THEN Some(W_Rejected)
                       ELSE IF Contains(dlow, W_wait) THEN Some(W_Waitlisted)
                       ELSE decision_text
             md == IF ~Truthy(decision_text) THEN NoneVal
                   ELSE SearchGroup0(decision_text.txt, DateEndAt(decision_text.txt))
             all_text == OrEmpty(_norm(Some(SoupText(soup))))
         IN IF IsNone(name0)
            THEN [kind |-> "raise", exc |-> "TypeError", base |-> NoBase]
            ELSE [kind |-> "ok", exc |-> "",
                  base |->
                    [ok |-> TRUE,
                     university |-> _norm(Some(CellText(cols[1]))),
                     program_name |-> LET t == JoinSplit(SubDegree(name0.txt))
                                      IN IF t = <<>> THEN NoneVal ELSE Some(t),
                     degree |-> degree,
                     date_added |-> _norm(Some(CellText(cols[3]))),
                     applicant_status |-> status,
                     acceptance_date |-> IF md.some /\ status = Some(W_Accepted) THEN md ELSE NoneVal,
                     rejection_date |-> IF md.some /\ status = Some(W_Rejected) THEN md ELSE NoneVal,
                     comments |-> _extract_comments(soup),
                     start_term |-> SearchGroup0(all_text, TermEndAt(all_text)),
                     international_american |->
                         IF Contains(Lower(all_text), W_international) THEN Some(W_International)
                         ELSE IF Contains(Lower(all_text), W_american) THEN Some(W_American)
                         ELSE NoneVal,
                     gpa |-> _extract_gpa(all_text)]]

\* lines 196-221 on a fetched page: the degree of the page and the three
\* GRE values
m4_detail(detail_soup) ==
    LET deg_type == _get_value(detail_soup, L_DegreeType)
        dlow == Lower(OrEmpty(deg_type))
        spans == detail_soup.spans
        After(label) ==
            LET sp == FirstIdx(Len(spans), [k \in 1..Len(spans) |->
                          Contains(Lower(spans[k]), Lower(label))])
            IN IF sp = 0 \/ sp + 1 > Len(spans) THEN NoneVal
               ELSE _norm(Some(Strip(spans[sp + 1])))
    IN <<IF ~Truthy(deg_type) THEN NoneVal
         ELSE IF Contains(dlow, W_phd) THEN Some(W_PhD)
         ELSE IF Contains(dlow, W_master) THEN Some(W_Masters)
         ELSE NoneVal,
         After(L_GreGeneral), After(L_GreVerbal), After(L_AnalyticalWriting)>>

\* both evaluated once for every sample fragment and page
m4_listing_of == [h \in {e.combined_html : e \in SampleEntries} |-> m4_listing(h)]
m4_detail_of == [d \in DetailDocs |-> m4_detail(d)]

\* one iteration of the loop (lines 80-241) when the network answers net
\* (kind "none" when nothing is asked): kind "skip", "raise" or "ok"
m4_iteration(item, net) ==
    IF ~HtmlTruthy(item.combined_html) THEN [kind |-> "skip", exc |-> "", rec |-> <<>>]
    ELSE LET l == m4_listing_of[item.combined_html]
         IN IF l.kind # "ok" THEN [kind |-> l.kind, exc |-> l.exc, rec |-> <<>>]
            ELSE IF Truthy(item.entry_url) /\ net.kind = "raise"
            THEN [kind |-> "raise", exc |-> net.exc, rec |-> <<>>]
            ELSE LET det == IF Truthy(item.entry_url) /\ net.kind = "resp" /\ net.status = StatusOK
                            THEN m4_detail_of[net.doc] ELSE AllNone
                 IN [kind |-> "ok", exc |-> "",
                     rec |-> [program_name |-> l.base.program_name,
                              university |-> l.base.university,
                              comments |-> l.base.comments,
                              date_added |-> l.base.date_added,
                              entry_url |-> item.entry_url,
                              applicant_status |-> l.base.applicant_status,
                              acceptance_date |-> l.base.acceptance_date,
                              rejection_date |-> l.base.rejection_date,
                              start_term |-> l.base.start_term,
                              international_american |-> l.base.international_american,
                              gre_score |-> det[2],
                              gre_v_score |-> det[3],
                              gre_aw |-> det[4],
                              degree |-> IF IsNone(l.base.degree) THEN det[1] ELSE l.base.degree,
                              gpa |-> l.base.gpa]]

\* module_4's clean_data on entries 1..n with the answers nets[j]: the list
\* returned, or the exception that leaves the loop
RECURSIVE m4_clean_data(_, _, _)
m4_clean_data(entries, nets, n) ==
    IF n = 0 THEN [exc |-> "", cleaned |-> <<>>]
    ELSE LET before == m4_clean_data(entries, nets, n - 1)
             it == m4_iteration(entries[n], nets[n])
         IN IF before.exc # "" THEN before
            ELSE IF it.kind = "raise" THEN [exc |-> it.exc, cleaned |-> <<>>]
            ELSE IF it.kind = "skip" THEN before
            ELSE [exc |-> "", cleaned |-> Append(before.cleaned, it.rec)]

(***************************************************************************)
(* Properties of clean_data                                                *)
(***************************************************************************)
\* an entry the listing parser accepts: markup whose first <tr> has at
\* least four <td> cells
WellFormed(e) ==
    /\ e.combined_html.kind = "markup"
    /\ Len(e.combined_html.rows) >= 1
    /\ Len(e.combined_html.rows[1]) >= 4

\* indices of the well-formed entries among the first n, in input order
AcceptedIdx(n) ==
    SelectIdx([j \in 1..n |-> j], {j \in 1..n : WellFormed(raw_entries[j])})

\* the entries handled so far
Handled == IF cpc = "done" THEN Len(raw_entries) ELSE pos - 1

\* the network answers logged for entry j
AnswersFor(j) == {k \in 1..Len(fetch_log) : fetch_log[k].idx = j}

\* the listing-derived fields of record r are those parsed from fragment h
ListingFieldsMatch(r, h) ==
    LET b == SummaryOf[h]
    IN /\ r.university = b.university
       /\ r.program_name = b.program_name
       /\ r.date_added = b.date_added
       /\ r.applicant_status = b.applicant_status
       /\ r.acceptance_date = b.acceptance_date
       /\ r.rejection_date = b.rejection_date
       /\ r.comments = b.comments
       /\ r.start_term = b.start_term
       /\ r.international_american = b.international_american
       /\ r.gpa = b.gpa

\* C1: in every record of the output the two dates are never both set, an
\* acceptance date implies status Accepted, a rejection date implies status
\* Rejected; hence Waitlisted and free-text statuses carry no date.
C1_DatesFollowStatus ==
    \A k \in 1..Len(cleaned) :
        LET r == cleaned[k]
        IN /\ ~(r.acceptance_date.some /\ r.rejection_date.some)
           /\ r.acceptance_date.some => r.applicant_status = Some(W_Accepted)
           /\ r.rejection_date.some => r.applicant_status = Some(W_Rejected)
           /\ r.applicant_status \notin {Some(W_Accepted), Some(W_Rejected)}
                 => ~r.acceptance_date.some /\ ~r.rejection_date.some

\* the text holds a day+month token
HasDateToken(t) == FirstMatch(t, DateEndAt(t)) > 0

\* a finished run whose output holds a free-text status with a day+month
\* token and no date, next to a record whose date was kept
C1_Witness ==
    /\ cpc = "done"
    /\ \E k \in 1..Len(cleaned) :
          /\ cleaned[k].applicant_status.some
          /\ cleaned[k].applicant_status.txt \notin {W_Accepted, W_Rejected, W_Waitlisted}
          /\ HasDateToken(cleaned[k].applicant_status.txt)
          /\ ~cleaned[k].acceptance_date.some
          /\ ~cleaned[k].rejection_date.some
    /\ \E k \in 1..Len(cleaned) : cleaned[k].rejection_date.some

\* the answer is a failed fetch: an exception or a status other than 200
FailedAnswer(net) == net.kind = "raise" \/ net.status # 200

\* C2: no exception leaves clean_data, every well-formed entry handled so
\* far has its record, and the record of an entry whose fetch failed has the
\* listing fields of its fragment, null GRE fields and no fallback degree.
C2_FailedFetchKeepsBatch ==
    /\ cpc # "raised"
    /\ Len(cleaned) = Cardinality({j \in 1..Handled : WellFormed(raw_entries[j])})
    /\ \A k \in 1..Len(cleaned) :
          LET j == AcceptedIdx(Handled)[k]
              e == raw_entries[j]
              r == cleaned[k]
          IN (\E a \in AnswersFor(j) : FailedAnswer(fetch_log[a].net))
                => /\ ListingFieldsMatch(r, e.combined_html)
                   /\ r.entry_url = e.entry_url
                   /\ r.gre_score = NoneVal
                   /\ r.gre_v_score = NoneVal
                   /\ r.gre_aw = NoneVal
                   /\ r.degree = SummaryOf[e.combined_html].degree

\* a finished run in which the first entry's fetch raised and the entry
\* after it still has its record
C2_Witness ==
    /\ cpc = "done"
    /\ Len(raw_entries) >= 2
    /\ Len(cleaned) = Len(raw_entries)
    /\ \E a \in AnswersFor(1) : fetch_log[a].net.kind = "raise"
    /\ cleaned[1].university.some

\* C3: a direct call of _fetch_detail_fields with an empty or null URL, a
\* raising request or a status other than 200 returns four nulls and lets
\* no exception out; without URL no request is made.
C3_FetchFailsToAllNone ==
    (fd_pc = "returned" /\ (~Truthy(fd_url) \/ FailedAnswer(fd_net)))
        => /\ fd_out.det = <<NoneVal, NoneVal, NoneVal, NoneVal>>
           /\ fd_out.escaped = ""
           /\ ~Truthy(fd_url) => ~fd_out.requested

\* a returned call whose page would have supplied values but whose status
\* was 404, and the URL was present
C3_Witness ==
    /\ fd_pc = "returned"
    /\ Truthy(fd_url)
    /\ fd_net.kind = "resp"
    /\ fd_net.status = 404
    /\ fd_net.doc = DocFull
    /\ fd_out.requested

\* C4: each loop iteration adds exactly one record when the entry is
\* well-formed and none otherwise, and never raises.
C4_FilterByFirstRow ==
    [][/\ cpc' # "raised"
       /\ pos' # pos =>
            /\ pos' = pos + 1
            /\ Len(cleaned') = Len(cleaned) + (IF WellFormed(raw_entries[pos]) THEN 1 ELSE 0)]_vars

\* a finished run over a three-cell row and a row of more than four cells:
\* one record
C4_Witness ==
    /\ cpc = "done"
    /\ Len(raw_entries) = 2
    /\ Len(raw_entries[1].combined_html.rows) >= 1
    /\ Len(raw_entries[1].combined_html.rows[1]) = 3
    /\ WellFormed(raw_entries[2])
    /\ Len(raw_entries[2].combined_html.rows[1]) > 4
    /\ Len(cleaned) = 1

\* C5: at every point of the loop the output is the handled prefix of the
\* input with the filtered entries removed, in input order, and it is never
\* longer than the input.
C5_OutputInInputOrder ==
    LET acc == AcceptedIdx(Handled)
    IN /\ Len(cleaned) = Len(acc)
       /\ Len(cleaned) <= Len(raw_entries)
       /\ \A k \in 1..Len(acc) :
             /\ cleaned[k].entry_url = raw_entries[acc[k]].entry_url
             /\ ListingFieldsMatch(cleaned[k], raw_entries[acc[k]].combined_html)

\* a finished run over two accepted entries whose records differ
C5_Witness ==
    /\ cpc = "done"
    /\ Len(raw_entries) = 2
    /\ WellFormed(raw_entries[1])
    /\ WellFormed(raw_entries[2])
    /\ Len(cleaned) = 2
    /\ cleaned[1].applicant_status = Some(W_Rejected)
    /\ cleaned[2].applicant_status = Some(W_Accepted)

\* C6: an entry handled so far was requested exactly once when it is
\* well-formed and has a URL, and never otherwise; entries not yet handled
\* were not requested; no entry is requested twice.
C6_OneFetchPerAcceptedUrl ==
    \A j \in 1..Len(raw_entries) :
        Cardinality(AnswersFor(j)) =
            IF j <= Handled /\ WellFormed(raw_entries[j]) /\ raw_entries[j].entry_url # NoneVal
            THEN 1 ELSE 0

\* a finished run over a filtered entry with a URL followed by an accepted
\* entry with a URL: one request, for the second
C6_Witness ==
    /\ cpc = "done"
    /\ Len(raw_entries) = 2
    /\ ~WellFormed(raw_entries[1]) /\ raw_entries[1].entry_url # NoneVal
    /\ WellFormed(raw_entries[2]) /\ raw_entries[2].entry_url # NoneVal
    /\ Len(fetch_log) = 1
    /\ fetch_log[1].idx = 2

\* the detail-page result for entry j: what _fetch_detail_fields returned
\* for the logged answer, four nulls when no request was made
DetailResult(j) ==
    IF AnswersFor(j) = {} THEN <<NoneVal, NoneVal, NoneVal, NoneVal>>
    ELSE LET a == CHOOSE a \in AnswersFor(j) : TRUE
         IN _fetch_detail_fields(raw_entries[j].entry_url, fetch_log[a].net).det

\* C7: the record's degree is the listing degree when that is non-null and
\* the detail-page degree otherwise; the GRE fields are the detail-page
\* result.
C7_ListingDegreeWins ==
    \A k \in 1..Len(cleaned) :
        LET j == AcceptedIdx(Handled)[k]
            listing == SummaryOf[raw_entries[j].combined_html].degree
            det == DetailResult(j)
            r == cleaned[k]
        IN /\ listing # NoneVal => r.degree = listing
           /\ listing = NoneVal => r.degree = det[1]
           /\ r.gre_score = det[2]
           /\ r.gre_v_score = det[3]
           /\ r.gre_aw = det[4]

\* a finished run with a record whose listing degree PhD beat the detail
\* page's Masters and a record whose degree came from the detail page
C7_Witness ==
    /\ cpc = "done"
    /\ \E k \in 1..Len(cleaned) :
          /\ cleaned[k].degree = Some(W_PhD)
          /\ DetailResult(AcceptedIdx(Handled)[k])[1] = Some(W_Masters)
          /\ cleaned[k].gre_score.some
    /\ \E k \in 1..Len(cleaned) :
          /\ SummaryOf[raw_entries[AcceptedIdx(Handled)[k]].combined_html].degree = NoneVal
          /\ cleaned[k].degree.some
(***************************************************************************)
(* Properties of the dashboard                                             *)
(***************************************************************************)
\* request r leaves its first lock block in this step
ChecksNow(r, route) ==
    /\ r <= Len(reqs)
    /\ reqs[r].route = route
    /\ reqs[r].pc = "start"
    /\ reqs'[r].pc # "start"

\* C8: a POST /pull-data whose lock block finds running set answers 409
\* busy, starts no thread then or later, and changes none of PULL_STATE,
\* RESULTS_CACHE and HAS_RESULTS.
C8_PullBusyGated ==
    /\ [][\A r \in 1..MaxRequests :
            (ChecksNow(r, "pull") /\ PULL_STATE.running)
               => /\ reqs'[r].pc = "done"
                  /\ reqs'[r].status = 409
                  /\ reqs'[r].body = "busy"
                  /\ pulls' = pulls
                  /\ UNCHANGED <<PULL_STATE, RESULTS_CACHE, HAS_RESULTS>>]_vars
    /\ [](\A t \in 1..Len(pulls) : reqs[pulls[t].owner].status # 409)

\* a pull is inside a stage and a later POST /pull-data was answered 409
C8_Witness ==
    /\ PULL_STATE.running
    /\ \E t \in 1..Len(pulls) : pulls[t].pc = "clean_data"
    /\ \E r \in 1..Len(reqs) :
          /\ reqs[r].route = "pull"
          /\ reqs[r].status = 409
          /\ reqs[r].body = "busy"
    /\ Len(pulls) = 1

\* C9: a POST /update-analysis whose lock block finds running set answers
\* 409 busy, never calls build_results, and changes none of RESULTS_CACHE,
\* HAS_RESULTS and the message.
C9_UpdateBusyGated ==
    /\ [][\A r \in 1..MaxRequests :
            (ChecksNow(r, "update") /\ PULL_STATE.running)
               => /\ reqs'[r].pc = "done"
                  /\ reqs'[r].status = 409
                  /\ reqs'[r].body = "busy"
                  /\ ~reqs'[r].built
                  /\ UNCHANGED <<PULL_STATE, RESULTS_CACHE, HAS_RESULTS>>]_vars
    /\ [](\A r \in 1..Len(reqs) :
             (reqs[r].route = "update" /\ reqs[r].status = 409) => ~reqs[r].built)

\* a pull is inside load_data and a POST /update-analysis was answered 409
\* with the cache still empty
C9_Witness ==
    /\ PULL_STATE.running
    /\ \E t \in 1..Len(pulls) : pulls[t].pc = "load_data"
    /\ \E r \in 1..Len(reqs) :
          /\ reqs[r].route = "update"
          /\ reqs[r].status = 409
          /\ ~reqs[r].built
    /\ ~HAS_RESULTS
    /\ PULL_STATE.message = MsgPulling

\* s is an initial segment of q
IsPrefix(s, q) == Len(s) <= Len(q) /\ \A k \in 1..Len(s) : s[k] = q[k]

\* C10: a POST /pull-data whose lock block finds running clear is answered
\* 200 ok and starts exactly one thread; a thread calls scrape_data,
\* clean_data, write_jsonl, load_data in that order, each once and only
\* when the one before returned; after a stage raised no stage is called;
\* a thread that got past load_data called all four.
C10_PullRunsStagesInOrder ==
    /\ [][\A r \in 1..MaxRequests :
            /\ (ChecksNow(r, "pull") /\ ~PULL_STATE.running)
                  => reqs'[r].pc = "spawn" /\ pulls' = pulls
            /\ (r <= Len(reqs) /\ reqs[r].pc = "spawn" /\ reqs'[r].pc # "spawn")
                  => /\ reqs'[r].status = 200
                     /\ reqs'[r].body = "ok"
                     /\ pulls' = Append(pulls, NewPull(r))]_vars
    /\ [][\A t \in 1..Len(pulls) :
            pulls'[t].stages # pulls[t].stages
               => /\ pulls[t].exc = "" /\ pulls'[t].exc = ""
                  /\ pulls'[t].stages = Append(pulls[t].stages, pulls'[t].pc)
                  /\ pulls[t].stages # <<>> => pulls[t].pc = pulls[t].stages[Len(pulls[t].stages)]]_vars
    /\ [](\A t \in 1..Len(pulls) :
             /\ IsPrefix(pulls[t].stages, <<"scrape_data", "clean_data", "write_jsonl", "load_data">>)
             /\ Cardinality({r \in 1..Len(reqs) : reqs[r].status = 200 /\ reqs[r].route = "pull"
                                                    /\ pulls[t].owner = r}) = 1
             /\ \A u \in 1..Len(pulls) : pulls[u].owner = pulls[t].owner => u = t
             /\ (pulls[t].exc = "" /\ pulls[t].pc \in {"complete", "finally", "done"})
                   => Len(pulls[t].stages) = 4)

\* one pull finished after all four stages, another stopped when its
\* second stage raised; both requests were answered 200
C10_Witness ==
    /\ Len(pulls) = 2
    /\ \E t \in 1..Len(pulls) :
          /\ pulls[t].pc = "done" /\ pulls[t].exc = ""
          /\ pulls[t].stages = <<"scrape_data", "clean_data", "write_jsonl", "load_data">>
    /\ \E t \in 1..Len(pulls) :
          /\ pulls[t].pc = "done" /\ pulls[t].exc = "RuntimeError"
          /\ pulls[t].stages = <<"scrape_data", "clean_data">>
    /\ \A r \in 1..Len(reqs) : reqs[r].status = 200 /\ reqs[r].body = "ok"

\* C11: when a pull whose stage raised leaves its finally block, the
\* message is "Pull failed: " followed by the exception text and running
\* is False.
C11_FailedPullReportsFailure ==
    [][\A t \in 1..Len(pulls) :
          (pulls[t].pc = "finally" /\ pulls'[t].pc = "done" /\ pulls[t].exc # "")
             => /\ PULL_STATE'.message = MsgFailed(pulls[t].exc)
                /\ ~PULL_STATE'.running]_vars

(***************************************************************************)
(* Properties of the database access                                       *)
(***************************************************************************)
\* C12: a load_data call that commits a file already loaded before leaves
\* the applicants table with the rows, and so the row count, it had when
\* the call began.
C12_ReloadAddsNothing ==
    [][(lpc = "rows" /\ lpc' = "done" /\ jsonl \in loaded)
          => applicants' = before_load /\ Len(applicants') = Len(before_load)]_vars

\* load_data or get_conn resolves the URL in this step
ResolvesNow ==
    \/ lpc = "resolve" /\ lpc' # "resolve"
    \/ lpc = "ready" /\ (connect_log' # connect_log \/ lpc' = "conn_raised")

\* psycopg.connect is called with url in this step
ConnectsWith(url) == connect_log' = Append(connect_log, url)

\* C19: the URL load_data and get_conn connect with is the non-empty
\* db_url argument, else the non-empty DATABASE_URL, else the URL built
\* from the five DB_ variables when all are set; otherwise RuntimeError
\* "DATABASE_URL is not set" leaves the call and psycopg.connect is not
\* called.
C19_ResolvePriority ==
    [][ResolvesNow =>
          IF Truthy(ld_db_url) THEN ConnectsWith(ld_db_url.txt)
          ELSE IF Truthy(environ["DATABASE_URL"]) THEN ConnectsWith(environ["DATABASE_URL"].txt)
          ELSE IF \A k \in {"DB_HOST", "DB_PORT", "DB_NAME", "DB_USER", "DB_PASSWORD"} :
                     Truthy(environ[k])
               THEN ConnectsWith(<<"p","o","s","t","g","r","e","s","q","l",":","/","/","v",":","p","%","4","0","+","s","@","h","o","s","t",":","v","/","v">>)
          ELSE /\ lpc' \in {"raised", "conn_raised"}
               /\ ld_exc' = [cls |-> "RuntimeError", msg |-> <<"DATABASE_URL is not set">>]
               /\ connect_log' = connect_log]_vars

\* load_data was called with an empty db_url, an empty DATABASE_URL and
\* DB_HOST set but DB_PORT unset: RuntimeError left it and no connection
\* was opened
C19_Witness ==
    /\ lpc = "raised"
    /\ ld_db_url = Some(<<>>)
    /\ environ["DATABASE_URL"] = Some(<<>>)
    /\ Truthy(environ["DB_HOST"]) /\ IsNone(environ["DB_PORT"])
    /\ ld_exc = [cls |-> "RuntimeError", msg |-> <<"DATABASE_URL is not set">>]
    /\ connect_log = <<>>

(***************************************************************************)
(* Properties of the field parsers                                         *)
(***************************************************************************)
\* a direct call of fn has returned
Parsed(fn) == p_pc = "returned" /\ p_fn = fn

\* the argument holds a separator
HasSeparator == DotIndex(p_arg.txt) > 0
\* the lower-cased text right of the first separator holds the marker w
RightHas(w) ==
    LET t == p_arg.txt
    IN Contains(Lower(Slice(t, DotIndex(t) + 1, Len(t))), w)

\* C13 as stated: the right side decides the degree in the order phd, psyd,
\* master, so a right side with a PsyD marker and a Masters marker gives
\* PsyD, and phd gives PhD whatever else is there.
C13_Original_PsydBeforeMaster ==
    (Parsed("_parse_program_and_degree") /\ HasSeparator)
       => /\ RightHas(W_phd) => p_out.degree = Some(W_PhD)
          /\ (~RightHas(W_phd) /\ RightHas(<<"p","s","y","d">>)) => p_out.degree = Some(W_PsyD)
          /\ (~RightHas(W_phd) /\ ~RightHas(<<"p","s","y","d">>) /\ RightHas(W_master))
                => p_out.degree = Some(W_Masters)

\* C13 amended: the order is phd, master, psyd, so a right side with a PsyD
\* marker and a Masters marker gives Masters, and phd gives PhD whatever
\* else is there.
C13_MasterBeforePsyd ==
    (Parsed("_parse_program_and_degree") /\ HasSeparator)
       => /\ RightHas(W_phd) => p_out.degree = Some(W_PhD)
          /\ (~RightHas(W_phd) /\ RightHas(W_master)) => p_out.degree = Some(W_Masters)
          /\ (~RightHas(W_phd) /\ ~RightHas(W_master) /\ RightHas(<<"p","s","y","d">>))
                => p_out.degree = Some(W_PsyD)

\* "... · PsyD Masters" was parsed and gave Masters
C13_Witness ==
    /\ Parsed("_parse_program_and_degree") /\ HasSeparator
    /\ RightHas(<<"p","s","y","d"," ","m","a","s","t","e","r","s">>)
    /\ p_out.degree = Some(W_Masters)

\* C14: "Computer Science · PhD", "Computer Science · Ph.D" and
\* "Computer Science · PHD" each give degree PhD and program_name
\* "Computer Science", and a detected degree is one of PhD, Masters, PsyD.
C14_DegreeCanonical ==
    Parsed("_parse_program_and_degree")
       => /\ p_arg.txt \in {<<"C","o","m","p","u","t","e","r"," ","S","c","i","e","n","c","e"," ","·"," ","P","h","D">>, <<"C","o","m","p","u","t","e","r"," ","S","c","i","e","n","c","e"," ","·"," ","P","h",".","D">>,
                            <<"C","o","m","p","u","t","e","r"," ","S","c","i","e","n","c","e"," ","·"," ","P","H","D">>}
                => /\ p_out.degree = Some(W_PhD)
                   /\ p_out.program_name = Some(<<"C","o","m","p","u","t","e","r"," ","S","c","i","e","n","c","e">>)
          /\ p_out.degree \in {NoneVal, Some(W_PhD), Some(W_Masters), Some(W_PsyD)}

\* C15: _parse_decision gives (None, None, None) for null or empty text;
\* otherwise the status is Accepted when the lower-cased text holds
\* "accept", else Rejected when it holds "reject", else Waitlisted when it
\* holds "wait", else the text itself.
C15_DecisionOrder ==
    Parsed("_parse_decision")
       => IF IsNone(p_arg) \/ p_arg.txt = <<>>
          THEN p_out = [status |-> NoneVal, acceptance_date |-> NoneVal, rejection_date |-> NoneVal]
          ELSE LET low == Lower(p_arg.txt)
               IN /\ Contains(low, W_accept) => p_out.status = Some(W_Accepted)
                  /\ (~Contains(low, W_accept) /\ Contains(low, W_reject))
                        => p_out.status = Some(W_Rejected)
                  /\ (~Contains(low, W_accept) /\ ~Contains(low, W_reject) /\ Contains(low, W_wait))
                        => p_out.status = Some(W_Waitlisted)
                  /\ (~Contains(low, W_accept) /\ ~Contains(low, W_reject) /\ ~Contains(low, W_wait))
                        => p_out.status = p_arg

\* "rejected Accepted 12 Feb" was parsed: both words occur and accept wins
C15_Witness ==
    /\ Parsed("_parse_decision")
    /\ p_arg = Some(<<"r","e","j","e","c","t","e","d"," ","A","c","c","e","p","t","e","d"," ","1","2"," ","F","e","b">>)
    /\ p_out.status = Some(W_Accepted)

(***************************************************************************)
(* Properties of clean_data: what a record depends on                      *)
(***************************************************************************)
\* the network answer given for entry j, "none" when no request was made
AnswerOf(j) ==
    IF AnswersFor(j) = {}
    THEN [kind |-> "none", exc |-> "", status |-> 0, doc |-> DetailDoc(<<>>, <<>>)]
    ELSE fetch_log[CHOOSE a \in AnswersFor(j) : TRUE].net

C17_EntryUrlCopied ==
    \A k \in 1..Len(cleaned) :
        cleaned[k].entry_url = raw_entries[AcceptedIdx(Handled)[k]].entry_url

\* a finished run whose first entry's detail request failed and whose
\* second entry has no URL: the first record keeps its URL, the second
\* has none
C17_Witness ==
    /\ cpc = "done"
    /\ Len(cleaned) = 2
    /\ AnswerOf(1).kind = "raise"
    /\ cleaned[1].entry_url = Url1
    /\ AnswerOf(2).kind = "none"
    /\ cleaned[2].entry_url = NoneVal

\* v is null, or a non-empty text without leading, trailing or doubled
\* whitespace
WhitespaceNormal(v) ==
    \/ IsNone(v)
    \/ /\ v.txt # <<>>
       /\ ~IsSpace(v.txt[1])
       /\ ~IsSpace(v.txt[Len(v.txt)])
       /\ \A i \in 1..(Len(v.txt) - 1) : ~(IsSpace(v.txt[i]) /\ IsSpace(v.txt[i + 1]))

TextFields ==
    {"program_name", "university", "comments", "date_added", "applicant_status",
     "acceptance_date", "rejection_date", "start_term", "international_american",
     "gre_score", "gre_v_score", "gre_aw", "degree", "gpa"}

\* the text of cell n of the first row of entry j is empty or whitespace
BlankCell(j, n) == Strip(raw_entries[j].combined_html.rows[1][n].text) = <<>>

\* C18: every textual field of every record is null or a non-empty text
\* without leading, trailing or doubled whitespace, and a field whose cell
\* is empty or whitespace-only is null.
C18_FieldsWhitespaceNormal ==
    \A k \in 1..Len(cleaned) :
        LET j == AcceptedIdx(Handled)[k]
            r == cleaned[k]
        IN /\ \A f \in TextFields : WhitespaceNormal(r[f])
           /\ BlankCell(j, 1) => r.university = NoneVal
           /\ BlankCell(j, 2) => r.program_name = NoneVal
           /\ BlankCell(j, 3) => r.date_added = NoneVal
           /\ BlankCell(j, 4) => r.applicant_status = NoneVal

\* a finished run with a record made from padded cells (" MIT ", a date
\* with a doubled blank, a padded comment) and a record made from a row of
\* whitespace-only cells
C18_Witness ==
    /\ cpc = "done"
    /\ Len(cleaned) = 2
    /\ raw_entries[1].combined_html.rows[1][1].text = T_Univ
    /\ raw_entries[1].combined_html.rows[1][3].text = T_Date
    /\ cleaned[1].university = Some(<<"M","I","T">>)
    /\ cleaned[1].date_added = Some(<<"J","a","n"," ","1",","," ","2","0","2","6">>)
    /\ cleaned[1].comments = Some(<<"G","r","e","a","t"," ","p","r","o","f","i","l","e">>)
    /\ BlankCell(2, 1) /\ BlankCell(2, 4)
    /\ cleaned[2].university = NoneVal
    /\ cleaned[2].applicant_status = NoneVal
    /\ cleaned[2].comments = NoneVal

(***************************************************************************)
(* Properties of scrape_data                                               *)
(***************************************************************************)
\* C20: the first request scrape_data makes is the one for robots.txt, so
\* no listing page is requested before it; when robots.txt disallows the
\* survey path the call never requests a listing page, never returns and
\* collects no rows, and its robots check ends in SystemExit.
C20_RobotsBeforePages ==
    /\ [](/\ \A k \in 1..Len(s_log) : s_log[k].kind = "page" => k > 1
          /\ s_log # <<>> => s_log[1] = RobotsRequest
          /\ s_robots = "disallow"
                => /\ \A k \in 1..Len(s_log) : s_log[k].kind # "page"
                   /\ spc \in {"robots", "SystemExit"}
                   /\ raw_rows = <<>>)
    /\ [][(spc = "robots" /\ s_robots = "disallow") => spc' = "SystemExit"]_vars

\* robots.txt disallowed the path on a site with listing rows and a
\* positive target: SystemExit, robots.txt the only request, no rows
C20_Witness ==
    /\ spc = "SystemExit"
    /\ s_robots = "disallow"
    /\ s_target > 0
    /\ Len(s_site) > 0 /\ s_site[1] = TablePage(SiteRows)
    /\ s_log = <<RobotsRequest>>
    /\ raw_rows = <<>>

(***************************************************************************)
(* Properties of the detail page                                           *)
(***************************************************************************)
\* the labels of the three GRE fields, in the order of the returned tuple
GreLabels == <<L_GreGeneral, L_GreVerbal, L_AnalyticalWriting>>

\* the spans of the page whose text holds the label, case ignored
LabelSpans(spans, label) == {k \in 1..Len(spans) : Contains(Lower(spans[k]), Lower(label))}

\* a page was fetched with status 200 and read
DetailRead == fd_pc = "returned" /\ Truthy(fd_url) /\ fd_net.kind = "resp" /\ fd_net.status = StatusOK

\* C21: for each GRE label the value read off a fetched page is the
\* (whitespace-normalised) text of the span that comes next after the first
\* span holding the label; it is null when no span holds the label or the
\* label's span is the last one; a label span directly followed by another
\* label's span takes that label's text, so gre_score is 'GRE Verbal' on a
\* page whose 'GRE General' span is followed by the 'GRE Verbal' span.
C21_ValueIsNextSpan ==
    DetailRead =>
        LET spans == fd_net.doc.spans
        IN /\ \A n \in 1..3 :
                LET at == LabelSpans(spans, GreLabels[n])
                    got == fd_out.det[n + 1]
                IN IF at = {} THEN IsNone(got)
                   ELSE LET sp == CHOOSE k \in at : \A j \in at : k <= j
                        IN IF sp = Len(spans) THEN IsNone(got)
                           ELSE got = _norm(Some(spans[sp + 1]))
           /\ (Len(spans) >= 2 /\ spans[1] = L_GreGeneral /\ spans[2] = L_GreVerbal)
                => fd_out.det[2] = Some(L_GreVerbal)

\* a page read where the 'GRE General' span is directly followed by the
\* 'GRE Verbal' span and the 'Analytical Writing' span is the last one
C21_Witness ==
    /\ DetailRead
    /\ fd_net.doc = DocAdjacent
    /\ fd_out.det[2] = Some(L_GreVerbal)
    /\ fd_out.det[3] = Some(<<"1","6","0">>)
    /\ IsNone(fd_out.det[4])

(***************************************************************************)
(* Properties of the dashboard: the results cache                          *)
(***************************************************************************)
\* request r runs the lock block of index in this step
IndexNow(r) == reqs[r].route = "index" /\ reqs[r].pc = "start" /\ reqs'[r].pc = "done"

UpdateStoresNow(r) ==
    /\ reqs[r].route = "update" /\ reqs[r].pc = "store"
    /\ reqs'[r].pc = "done" /\ reqs'[r].status = 200

ScrapeEnded == spc \in {"done", "SystemExit", "raised"}

\* the page of the last request
LastPage == PageServed(s_log[Len(s_log)].n)

\* C24: the page loop of scrape_data stops exactly when the requested
\* number of rows has been collected or a page has no <table>; the call
\* ends for every sequence of page responses; the returned list never has
\* more than target entries.
C24_LoopStopsAndTerminates ==
    /\ [](spc = "done" =>
            /\ Len(raw_rows) <= s_target
            /\ \/ Len(raw_rows) >= s_target
               \/ s_log[Len(s_log)].kind = "page" /\ ~LastPage.table)
    /\ [][(spc = "loop" /\ spc' = "loop") =>
            Len(raw_rows) < s_target /\ PageServed(page).table]_vars
    /\ <>ScrapeEnded

(***************************************************************************)
(* Properties of the dashboard: concurrent requests                        *)
(***************************************************************************)
\* thread t is executing _background_pull: it has entered and not left it
Executing(t) == pulls[t].pc \notin {"start", "done"}

\* request q was answered 200 by pull_data and the thread it created has
\* not finished
PullPending(q) ==
    /\ reqs[q].route = "pull" /\ reqs[q].pc = "done" /\ reqs[q].status = 200
    /\ \E t \in 1..Len(pulls) : pulls[t].owner = q /\ pulls[t].pc # "done"

\* C25: at most one background pull runs at any time: no two executions
\* of _background_pull overlap, and a POST /pull-data that begins after
\* another one was answered 200 and before that pull finished is answered
\* 409.
C25_AtMostOnePull ==
    /\ [](\A t, u \in 1..Len(pulls) : (Executing(t) /\ Executing(u)) => t = u)
    /\ [][\A r \in 1..Len(reqs) :
            (/\ reqs[r].route = "pull" /\ reqs[r].pc = "start" /\ reqs'[r].pc # "start"
             /\ \E q \in 1..Len(reqs) : q # r /\ PullPending(q))
            => reqs'[r].status = 409]_vars

\* request r calls build_results from update_analysis in this step
UpdateBuildsNow(r) == reqs[r].route = "update" /\ reqs[r].pc = "build" /\ reqs'[r].pc # "build"

\* request r runs the second lock block of update_analysis in this step
UpdateWritesNow(r) == reqs[r].route = "update" /\ reqs[r].pc = "store" /\ reqs'[r].pc # "store"

\* a pull is inside load_data
LoadInProgress == \E t \in 1..Len(pulls) : pulls[t].pc = "load_data"

\* C26: update_analysis never writes RESULTS_CACHE and the message while
\* PULL_STATE['running'] is True, and its build_results never reads the
\* database while the load_data of a pull is in progress.
C26_UpdateNeverOverlapsPull ==
    /\ [][\A r \in 1..Len(reqs) : UpdateWritesNow(r) => ~PULL_STATE.running]_vars
    /\ [][\A r \in 1..Len(reqs) : UpdateBuildsNow(r) => ~LoadInProgress]_vars

(***************************************************************************)
(* Properties of the dashboard: the busy flag is cleared                   *)
(***************************************************************************)
\* every thread created so far has left _background_pull and every request
\* received so far was answered
AllEnded ==
    /\ \A t \in 1..Len(pulls) : pulls[t].pc = "done"
    /\ \A r \in 1..Len(reqs) : reqs[r].pc = "done"

\* thread t leaves _background_pull in this step
EndsNow(t) == pulls[t].pc # "done" /\ pulls'[t].pc = "done"

\* no thread is inside _background_pull
NoneExecuting == \A t \in 1..Len(pulls) : ~Executing(t)

Committed == IF lpc = "rows" THEN before_load ELSE applicants

\* load_data executes the INSERT of one line in this step
InsertsNow == lpc = "rows" /\ lpos <= Len(jsonl) /\ jsonl[lpos].kind = "json" /\ lpos' = lpos + 1

\* C28: after any sequence of load_data calls the applicants table has at
\* most one row per non-null url, and a stored row is never modified: an
\* INSERT keeps every row of the table as it is, adds nothing when the url
\* of its record is already stored, and no step changes or removes a
\* committed row.
C28_OneRowPerUrlFirstWriteWins ==
    /\ [](\A i, j \in 1..Len(applicants) :
            (~IsNone(applicants[i].url) /\ applicants[i].url = applicants[j].url) => i = j)
    /\ [][InsertsNow =>
            /\ IsPrefix(applicants, applicants')
            /\ (\E k \in 1..Len(applicants) :
                    ~IsNone(applicants[k].url) /\ applicants[k].url = jsonl[lpos].row.entry_url)
                 => applicants' = applicants]_vars
    /\ [][IsPrefix(Committed, Committed')]_vars

\* a file of two different records with the same url was loaded: the table
\* has the first record's row alone
C28_Witness ==
    /\ lpc = "done"
    /\ Len(jsonl) = 2
    /\ jsonl[1].kind = "json" /\ jsonl[2].kind = "json"
    /\ jsonl[1].row.entry_url = Url1 /\ jsonl[2].row.entry_url = Url1
    /\ jsonl[1].row.university # jsonl[2].row.university
    /\ applicants = <<InsertParams(jsonl[1].row)>>

(***************************************************************************)
(* Properties of clean_data: the two versions                              *)
(***************************************************************************)
\* no detail request of the call raised
NoFetchRaised == \A k \in 1..Len(fetch_log) : fetch_log[k].net.kind # "raise"

\* what module_4's clean_data does with the batch and the same answers
MonolithUnder == m4_clean_data(raw_entries, [j \in 1..Len(raw_entries) |-> AnswerOf(j)], Len(raw_entries))

\* C29: module_5's clean_data and module_4's clean_data are equivalent: on
\* every batch, with the same answers to the detail requests and none of
\* them raising, where one returns the other returns the same list of
\* records (length, order and field values) and neither raises.
C29_RefactoredEqualsMonolith ==
    (cpc = "done" /\ NoFetchRaised) =>
        /\ MonolithUnder.exc = ""
        /\ MonolithUnder.cleaned = cleaned

(***************************************************************************)
(* Properties of scrape_data: the rows of a raw entry                      *)
(***************************************************************************)
\* a listing row: a <tr> with at least four cells
IsListingRow(cells) == Len(cells) >= MinCells

\* the rows of a fragment that belong to its first row: the first row and
\* the rows after it up to the next listing row
OwnRows(rows) ==
    LET nxt == {k \in 2..Len(rows) : IsListingRow(rows[k])}
    IN IF nxt = {} THEN rows
       ELSE SubSeq(rows, 1, (CHOOSE k \in nxt : \A j \in nxt : k <= j) - 1)

\* C30: every raw entry built by scrape_data has exactly one listing row
\* and besides it only that entry's own tag and comment rows, so the
\* start_term, residency, gpa and comments cleaned from the entry are those
\* cleaned from its own rows.
C30_RawEntryHoldsOwnRowsOnly ==
    \A k \in 1..Len(raw_rows) :
        LET rows == raw_rows[k].combined_html.rows
            whole == _extract_summary_fields(Html(rows))
            own == _extract_summary_fields(Html(OwnRows(rows)))
        IN /\ Cardinality({j \in 1..Len(rows) : IsListingRow(rows[j])}) = 1
           /\ whole.start_term = own.start_term
           /\ whole.international_american = own.international_american
           /\ whole.gpa = own.gpa
           /\ whole.comments = own.comments
====
